---- MODULE Spec2Model ----
(***************************************************************************)
(* OpSpawn orchestrator (src/orchestrator.js): the state-mutation engine.  *)
(*                                                                         *)
(* The shared state document (state.json) and the event journal            *)
(* (events.jsonl) are the state.  Every engine function is a handler that  *)
(* loads the document, validates, mutates, saves (version + 1) and then    *)
(* appends a journal entry.  Each handler is written as an operator on a   *)
(* loaded document that yields the document to save, the events to append  *)
(* and the value returned (or the error raised).                           *)
(*                                                                         *)
(* Spec      : calls executed one at a time (one action = one whole call). *)
(* BoardSpec : the same, callers using the task board only.                *)
(* LockSpec  : the same, callers using the lock manager only.              *)
(* ConcBoardSpec, ConcLockSpec : two processes whose file reads, file       *)
(*             writes and journal appends interleave.                      *)
(***************************************************************************)
EXTENDS Integers, Sequences, FiniteSets, TLC

VARIABLES
    doc,      \* state.json: the shared state document
    journal,  \* events.jsonl: the appended events
    knowledge, \* the knowledge directory: per file name, the file written
    now,      \* the wall clock (Date.now())
    last,     \* the call that has just returned, and what it returned
    held,     \* per resource and agent, the end of the lease the agent was
              \* last granted and has not released (-1: none)
    pc,       \* per process, its place in the call it is running
    call,     \* per process, the call it is running
    loaded,   \* per process, the document its call loaded
    out       \* per process, what its call returns and has yet to journal

vars == <<doc, journal, knowledge, now, last, held, pc, call, loaded, out>>

----------------------------------------------------------------------------
(* Bounds of the model *)

\* saveState calls in one behaviour of Spec
MaxVersion == 3
\* saveState calls in one behaviour of BoardSpec
MaxBoardVersion == 4
\* saveState calls in one behaviour of LockSpec
MaxLockVersion == 3
\* saveState calls in one behaviour of ConcBoardSpec
MaxConcBoardSaves == 4
\* saveState calls in one behaviour of ConcLockSpec
MaxConcLockSaves == 3
\* clock instants after the initial one
MaxTime == 1
\* tasks in one workstream
MaxTasks == 2
\* saves per behaviour when callers also use the journal directly
MaxJournalVersion == 2
\* entries in the journal up to which logEvent is called directly
MaxJournal == 2
\* saves per behaviour when callers also read
MaxReadVersion == 2
\* writes and deletes of knowledge per behaviour
MaxKnowledgeOps == 3

----------------------------------------------------------------------------
(* Input values *)

\* A key every JSON.parse'd object inherits from Object.prototype: obj[Proto]
\* is truthy before any assignment, and obj[Proto] = v sets the prototype
\* instead of an own property, so JSON.stringify never writes it.
Proto == "__proto__"
Null == "null"
None == "-"

Agents == {"a1", "a2"}
AgentKeys == {"a1", Proto}
WsNames == {"w1"}
WsKeys == WsNames \cup {Proto}
Resources == {"r1", Proto}
TaskIds == {"t1", "t2"}
\* priorities a caller passes; 0 is falsy in `opts.priority || 5`
PrioInputs == {0, 1}
TTLs == {0, 1}
Results == {"R"}
\* opts.title of the addTask calls
Title == "T"
Procs == {"p1", "p2"}
\* logEvent(agentId, action, data): a value given as undefined, the agents,
\* the actions and the data mappings passed
Undefined == "undefined"
LogAgents == {"a1"}
Actions == {"act"}
DataInputs ==
    {[k |-> "v"], [k |-> Undefined], [k |-> "v", agent |-> "a2"]}
\* writeKnowledge(topic, content, agentId): the topics and contents passed
\* (a topic is the sequence of the pieces of its name, ".md" being a piece)
Md == ".md"
PlainTopics == {<<"n1">>}
Topics == PlainTopics \cup {<<"n1", Md, "x">>, <<"n1", "x", Md>>}
Contents == {"c1", "c2"}
\* getEvents(opts): an option left out
Absent == -1
\* getEvents(opts): the options passed
QueryInputs ==
    [agent : {None, "a1"}, action : {None, "act"},
     since : {Absent, 1}, last : {Absent, 0, 1, 2}]
\* getEvents called with no option
NoQuery == [agent |-> None, action |-> None, since |-> Absent, last |-> Absent]
\* getEvents(opts): the options passed by callers that only read
ReadQueries == {NoQuery, [NoQuery EXCEPT !.agent = "a1", !.last = 1]}

----------------------------------------------------------------------------
(* JavaScript object access on a parsed JSON object *)

\* `obj[k]` used as a condition
Truthy(obj, k) == k \in DOMAIN obj \/ k = Proto

\* `obj[k] = v` followed by JSON.stringify / JSON.parse
Put(obj, k, v) ==
    IF k = Proto THEN obj
    ELSE [x \in DOMAIN obj \cup {k} |-> IF x = k THEN v ELSE obj[x]]

\* `delete obj[k]`
Delete(obj, k) == [x \in DOMAIN obj \ {k} |-> obj[x]]

\* `v || 5`
OrFive(v) == IF v = 0 THEN 5 ELSE v

\* `v || 'system'`
OrSystem(v) == IF v = Null THEN "system" ELSE v

----------------------------------------------------------------------------
(* Persistent store *)

EmptyDoc ==
    [version |-> 0, updated_at |-> 0, workstreams |-> <<>>,
     agents |-> <<>>, locks |-> <<>>]

\* saveState: stamps updated_at, increments version, rewrites the document
SaveState(state, t) ==
    [state EXCEPT !.updated_at = t, !.version = @ + 1]

\* logEvent: the record appended to events.jsonl
Event(t, agentId, action, ws, taskId, resource) ==
    [ts |-> t, agent |-> agentId, action |-> action,
     workstream |-> ws, task_id |-> taskId, resource |-> resource]

\* What a handler does with the document it loaded
Raise(state, err) ==
    [doc |-> state, save |-> FALSE, events |-> <<>>, ret |-> err, idx |-> 0]
\* a return after a saveState that the function does not make
ReturnSaving(state, v) ==
    [doc |-> state, save |-> TRUE, events |-> <<>>, ret |-> v, idx |-> 0]
Return(state, v) ==
    [doc |-> state, save |-> FALSE, events |-> <<>>, ret |-> v, idx |-> 0]
Commit(state, evs, v, i) ==
    [doc |-> state, save |-> TRUE, events |-> evs, ret |-> v, idx |-> i]

----------------------------------------------------------------------------
(* Workstreams: state.workstreams keeps insertion order *)

WsHas(state, name) ==
    \E i \in 1..Len(state.workstreams) : state.workstreams[i].name = name

WsIdx(state, name) ==
    CHOOSE i \in 1..Len(state.workstreams) : state.workstreams[i].name = name

\* `state.workstreams[name]` used as a condition
WsTruthy(state, name) == WsHas(state, name) \/ name = Proto

Tasks(state, name) == state.workstreams[WsIdx(state, name)].tasks

\* the tasks of the workstream called name, none if it is not stored
TasksOf(state, name) == IF WsHas(state, name) THEN Tasks(state, name) ELSE <<>>

\* ws.tasks.find(t => t.id === taskId): index of the first match, 0 if none
FindTask(tasks, taskId) ==
    IF \E i \in 1..Len(tasks) : tasks[i].id = taskId
    THEN CHOOSE i \in 1..Len(tasks) :
            /\ tasks[i].id = taskId
            /\ \A j \in 1..(i - 1) : tasks[j].id # taskId
    ELSE 0

createWorkstream(state, name, prio, t) ==
    IF WsTruthy(state, name) THEN Raise(state, "AlreadyExists")
    ELSE Commit([state EXCEPT !.workstreams = Append(@,
                    [name |-> name, priority |-> OrFive(prio),
                     status |-> "active", tasks |-> <<>>, created_at |-> t])],
                <<Event(t, "system", "workstream_created", name, None, None)>>,
                "workstream", 0)

addTask(state, ws, title, prio, id, t) ==
    IF ~WsTruthy(state, ws) THEN Raise(state, "NotFound")
    ELSE IF ~WsHas(state, ws) THEN Raise(state, "TypeError")
    ELSE LET w == WsIdx(state, ws)
             task == [id |-> id, title |-> title, status |-> "pending",
                      priority |-> OrFive(prio),
                      assigned_to |-> Null, created_at |-> t, updated_at |-> t,
                      result |-> Null]
         IN Commit([state EXCEPT !.workstreams[w].tasks = Append(@, task)],
                   <<Event(t, "system", "task_created", ws, id, None)>>,
                   "task", Len(state.workstreams[w].tasks) + 1)

\* claimTask without the status check of line 171
claimTaskAnyStatus(state, ws, taskId, agentId, t) ==
    IF ~WsTruthy(state, ws) THEN Raise(state, "NotFound")
    ELSE IF ~WsHas(state, ws) THEN Raise(state, "TypeError")
    ELSE LET w == WsIdx(state, ws)
             i == FindTask(state.workstreams[w].tasks, taskId)
         IN IF i = 0 THEN Raise(state, "NotFound")
            ELSE Commit([state EXCEPT !.workstreams[w].tasks[i] =
                            [@ EXCEPT !.status = "in_progress",
                                      !.assigned_to = agentId,
                                      !.updated_at = t]],
                        <<Event(t, agentId, "task_claimed", ws, taskId, None)>>,
                        "task", i)

claimTask(state, ws, taskId, agentId, t) ==
    IF ~WsTruthy(state, ws) THEN Raise(state, "NotFound")
    ELSE IF ~WsHas(state, ws) THEN Raise(state, "TypeError")
    ELSE LET w == WsIdx(state, ws)
             i == FindTask(state.workstreams[w].tasks, taskId)
         IN IF i = 0 THEN Raise(state, "NotFound")
            ELSE IF state.workstreams[w].tasks[i].status # "pending"
            THEN Raise(state, "InvalidState")
            ELSE Commit([state EXCEPT !.workstreams[w].tasks[i] =
                            [@ EXCEPT !.status = "in_progress",
                                      !.assigned_to = agentId,
                                      !.updated_at = t]],
                        <<Event(t, agentId, "task_claimed", ws, taskId, None)>>,
                        "task", i)

\* completeTask refusing a task that is not in progress
completeTaskInProgressOnly(state, ws, taskId, result, t) ==
    IF ~WsTruthy(state, ws) THEN Raise(state, "NotFound")
    ELSE IF ~WsHas(state, ws) THEN Raise(state, "TypeError")
    ELSE LET w == WsIdx(state, ws)
             i == FindTask(state.workstreams[w].tasks, taskId)
         IN IF i = 0 THEN Raise(state, "NotFound")
            ELSE IF state.workstreams[w].tasks[i].status # "in_progress"
            THEN Raise(state, "InvalidState")
            ELSE Commit([state EXCEPT !.workstreams[w].tasks[i] =
                            [@ EXCEPT !.status = "done",
                                      !.result = result,
                                      !.updated_at = t]],
                        <<Event(t, OrSystem(state.workstreams[w].tasks[i].assigned_to),
                                "task_completed", ws, taskId, None)>>,
                        "task", i)

\* completeTask taking the finished task off the workstream's list
completeTaskArchiving(state, ws, taskId, result, t) ==
    IF ~WsTruthy(state, ws) THEN Raise(state, "NotFound")
    ELSE IF ~WsHas(state, ws) THEN Raise(state, "TypeError")
    ELSE LET w == WsIdx(state, ws)
             tasks == state.workstreams[w].tasks
             i == FindTask(tasks, taskId)
         IN IF i = 0 THEN Raise(state, "NotFound")
            ELSE Commit([state EXCEPT !.workstreams[w].tasks =
                            SubSeq(tasks, 1, i - 1)
                                \o SubSeq(tasks, i + 1, Len(tasks))],
                        <<Event(t, OrSystem(tasks[i].assigned_to),
                                "task_completed", ws, taskId, None)>>,
                        "task", i)

\* completeTask handing the task back: assigned_to cleared on completion
completeTaskUnassigning(state, ws, taskId, result, t) ==
    IF ~WsTruthy(state, ws) THEN Raise(state, "NotFound")
    ELSE IF ~WsHas(state, ws) THEN Raise(state, "TypeError")
    ELSE LET w == WsIdx(state, ws)
             i == FindTask(state.workstreams[w].tasks, taskId)
         IN IF i = 0 THEN Raise(state, "NotFound")
            ELSE Commit([state EXCEPT !.workstreams[w].tasks[i] =
                            [@ EXCEPT !.status = "done",
                                      !.result = result,
                                      !.assigned_to = Null,
                                      !.updated_at = t]],
                        <<Event(t, OrSystem(state.workstreams[w].tasks[i].assigned_to),
                                "task_completed", ws, taskId, None)>>,
                        "task", i)

completeTask(state, ws, taskId, result, t) ==
    IF ~WsTruthy(state, ws) THEN Raise(state, "NotFound")
    ELSE IF ~WsHas(state, ws) THEN Raise(state, "TypeError")
    ELSE LET w == WsIdx(state, ws)
             i == FindTask(state.workstreams[w].tasks, taskId)
         IN IF i = 0 THEN Raise(state, "NotFound")
            ELSE Commit([state EXCEPT !.workstreams[w].tasks[i] =
                            [@ EXCEPT !.status = "done",
                                      !.result = result,
                                      !.updated_at = t]],
                        <<Event(t, OrSystem(state.workstreams[w].tasks[i].assigned_to),
                                "task_completed", ws, taskId, None)>>,
                        "task", i)

\* ws.tasks.filter(t => t.status === 'pending'): the places of the pending
\* tasks, in stored order
RECURSIVE PendingOf(_, _)
PendingOf(tasks, n) ==
    IF n = 0 THEN <<>>
    ELSE IF tasks[n].status = "pending"
         THEN Append(PendingOf(tasks, n - 1), n)
         ELSE PendingOf(tasks, n - 1)

\* one step of the stable sort: x goes behind every element that does not
\* compare greater (`a.priority - b.priority` <= 0 keeps the order)
RECURSIVE InsertByPriority(_, _, _)
InsertByPriority(tasks, sorted, x) ==
    IF sorted = <<>> THEN <<x>>
    ELSE IF tasks[sorted[Len(sorted)]].priority - tasks[x].priority <= 0
         THEN Append(sorted, x)
         ELSE Append(InsertByPriority(tasks, SubSeq(sorted, 1, Len(sorted) - 1), x),
                     sorted[Len(sorted)])

\* .sort((a, b) => a.priority - b.priority): Array.prototype.sort is stable
RECURSIVE SortByPriority(_, _)
SortByPriority(tasks, seq) ==
    IF seq = <<>> THEN <<>>
    ELSE InsertByPriority(tasks,
                          SortByPriority(tasks, SubSeq(seq, 1, Len(seq) - 1)),
                          seq[Len(seq)])

\* pending[0]: the place of the task getNextTask picks, 0 if none is pending
SelectNext(tasks) ==
    LET pending == SortByPriority(tasks, PendingOf(tasks, Len(tasks)))
    IN IF Len(pending) = 0 THEN 0 ELSE pending[1]

getNextTask(state, ws, agentId, t) ==
    IF ~WsTruthy(state, ws) THEN Raise(state, "NotFound")
    ELSE IF ~WsHas(state, ws) THEN Raise(state, "TypeError")
    ELSE LET tasks == Tasks(state, ws)
             sel == SelectNext(tasks)
         IN IF sel = 0 THEN Return(state, "null")
            ELSE claimTask(state, ws, tasks[sel].id, agentId, t)

----------------------------------------------------------------------------
(* Agents *)

registerAgent(state, agentId, t) ==
    Commit([state EXCEPT !.agents = Put(@, agentId,
                [type |-> "general", status |-> "active",
                 registered_at |-> t, last_seen |-> t])],
           <<Event(t, agentId, "agent_registered", None, None, None)>>,
           "agent", 0)

heartbeat(state, agentId, t) ==
    IF Truthy(state.agents, agentId)
    THEN Commit(IF agentId \in DOMAIN state.agents
                THEN [state EXCEPT !.agents[agentId] =
                        [@ EXCEPT !.last_seen = t, !.status = "active"]]
                ELSE state,
                <<>>, "undefined", 0)
    ELSE Return(state, "undefined")

----------------------------------------------------------------------------
(* Locks *)

\* existing.acquired_at + existing.ttl_ms
ExpiresAt(lock) == lock.acquired_at + lock.ttl_ms

\* the test without `existing.agent !== agentId`
HeldByAnyone(state, resource, agentId, t) ==
    /\ resource \in DOMAIN state.locks
    /\ t < ExpiresAt(state.locks[resource])

\* the test without `Date.now() < expiresAt`
HeldByOtherForever(state, resource, agentId, t) ==
    /\ resource \in DOMAIN state.locks
    /\ state.locks[resource].agent # agentId

\* the test with `Date.now() <= expiresAt`
HeldByOtherInclusive(state, resource, agentId, t) ==
    /\ resource \in DOMAIN state.locks
    /\ t <= ExpiresAt(state.locks[resource])
    /\ state.locks[resource].agent # agentId

\* `Date.now() < expiresAt && existing.agent !== agentId`; for the inherited
\* key the fields are undefined, expiresAt is NaN and the test is false
HeldByOther(state, resource, agentId, t) ==
    /\ resource \in DOMAIN state.locks
    /\ t < ExpiresAt(state.locks[resource])
    /\ state.locks[resource].agent # agentId

\* acquireLock journaling the attempts it denies
acquireLockLogsDenial(state, resource, agentId, ttlMs, t) ==
    IF Truthy(state.locks, resource) /\ HeldByOther(state, resource, agentId, t)
    THEN [doc |-> state, save |-> FALSE,
          events |-> <<Event(t, agentId, "lock_denied", None, None, resource)>>,
          ret |-> "false", idx |-> 0]
    ELSE Commit([state EXCEPT !.locks = Put(@, resource,
                    [agent |-> agentId, acquired_at |-> t, ttl_ms |-> ttlMs])],
                <<Event(t, agentId, "lock_acquired", None, None, resource)>>,
                "true", 0)

acquireLock(state, resource, agentId, ttlMs, t) ==
    IF Truthy(state.locks, resource) /\ HeldByOther(state, resource, agentId, t)
    THEN Return(state, "false")
    ELSE Commit([state EXCEPT !.locks = Put(@, resource,
                    [agent |-> agentId, acquired_at |-> t, ttl_ms |-> ttlMs])],
                <<Event(t, agentId, "lock_acquired", None, None, resource)>>,
                "true", 0)

\* the test without `.agent === agentId`
IsLocked(state, resource, agentId) ==
    /\ Truthy(state.locks, resource)
    /\ resource \in DOMAIN state.locks

\* `state.locks[resource] && state.locks[resource].agent === agentId`
IsHolder(state, resource, agentId) ==
    /\ Truthy(state.locks, resource)
    /\ resource \in DOMAIN state.locks
    /\ state.locks[resource].agent = agentId

releaseLock(state, resource, agentId, t) ==
    IF IsHolder(state, resource, agentId)
    THEN Commit([state EXCEPT !.locks = Delete(@, resource)],
                <<Event(t, agentId, "lock_released", None, None, resource)>>,
                "true", 0)
    ELSE Return(state, "false")

----------------------------------------------------------------------------
(* Calls *)

Call(op, ws, id, agentId, resource, ttl, prio, result) ==
    [op |-> op, ws |-> ws, id |-> id, agent |-> agentId, resource |-> resource,
     ttl |-> ttl, prio |-> prio, result |-> result, title |-> Title]

NoCall == Call("none", None, None, None, None, 0, 0, None)

\* the handler a call runs on the document it loaded, at clock reading t
Handle(c, state, t) ==
    CASE c.op = "createWorkstream" -> createWorkstream(state, c.ws, c.prio, t)
      [] c.op = "addTask" -> addTask(state, c.ws, c.title, c.prio, c.id, t)
      [] c.op = "claimTask" -> claimTask(state, c.ws, c.id, c.agent, t)
      [] c.op = "completeTask" -> completeTask(state, c.ws, c.id, c.result, t)
      [] c.op = "getNextTask" -> getNextTask(state, c.ws, c.agent, t)
      [] c.op = "registerAgent" -> registerAgent(state, c.agent, t)
      [] c.op = "heartbeat" -> heartbeat(state, c.agent, t)
      [] c.op = "acquireLock" -> acquireLock(state, c.resource, c.agent, c.ttl, t)
      [] c.op = "releaseLock" -> releaseLock(state, c.resource, c.agent, t)
      [] OTHER -> Return(state, "doc")

\* What the callers know: acquireLock returned true to c.agent at t (a lease
\* of c.ttl from t), or releaseLock returned true
Leases(h, c, ret, t) ==
    IF c.op = "acquireLock" /\ ret = "true"
    THEN [h EXCEPT ![c.resource][c.agent] = t + c.ttl]
    ELSE IF c.op = "releaseLock" /\ ret = "true"
    THEN [h EXCEPT ![c.resource][c.agent] = -1]
    ELSE h

\* agentId was granted a lease on resource that has neither been released
\* nor run out
Holds(resource, agentId) ==
    /\ held[resource][agentId] # -1
    /\ now < held[resource][agentId]

\* the model's bounds: saves per behaviour, tasks per workstream
WithinBounds(c, state, r, cap) ==
    /\ r.save => state.version < cap
    /\ (c.op = "addTask" /\ r.save) => Len(Tasks(state, c.ws)) < MaxTasks

NoLast == [call |-> NoCall, ret |-> None, idx |-> 0]
NoOut == [ret |-> None, idx |-> 0, events |-> <<>>]

Init ==
    /\ doc = EmptyDoc
    /\ journal = <<>>
    /\ knowledge = <<>>
    /\ now = 0
    /\ last = NoLast
    /\ held = [r \in Resources |-> [a \in Agents |-> -1]]
    /\ pc = [p \in Procs |-> "idle"]
    /\ call = [p \in Procs |-> NoCall]
    /\ loaded = [p \in Procs |-> EmptyDoc]
    /\ out = [p \in Procs |-> NoOut]

----------------------------------------------------------------------------
(* Calls executed one at a time: load, validate, mutate, save, journal.    *)
(* `last` is the call that has just returned and what it returned; the     *)
(* caller takes the result (Resume) before it issues the next call.        *)

Do(c, cap) ==
    LET r == Handle(c, doc, now)
    IN /\ last = NoLast
       /\ WithinBounds(c, doc, r, cap)
       /\ doc' = IF r.save THEN SaveState(r.doc, now) ELSE doc
       /\ journal' = journal \o r.events
       /\ last' = [call |-> c, ret |-> r.ret, idx |-> r.idx]
       /\ held' = Leases(held, c, r.ret, now)
       /\ UNCHANGED <<knowledge, now, pc, call, loaded, out>>

CreateWorkstream(cap) ==
    \E name \in WsKeys, prio \in PrioInputs :
        Do(Call("createWorkstream", name, None, None, None, 0, prio, None), cap)

AddTask(cap) ==
    \E ws \in WsKeys, prio \in PrioInputs, id \in TaskIds :
        Do(Call("addTask", ws, id, None, None, 0, prio, None), cap)

ClaimTask(cap) ==
    \E ws \in WsKeys, id \in TaskIds, a \in Agents :
        Do(Call("claimTask", ws, id, a, None, 0, 0, None), cap)

CompleteTask(cap) ==
    \E ws \in WsKeys, id \in TaskIds, res \in Results :
        Do(Call("completeTask", ws, id, None, None, 0, 0, res), cap)

GetNextTask(cap) ==
    \E ws \in WsKeys, a \in Agents :
        Do(Call("getNextTask", ws, None, a, None, 0, 0, None), cap)

RegisterAgent(cap) ==
    \E a \in AgentKeys :
        Do(Call("registerAgent", None, None, a, None, 0, 0, None), cap)

Heartbeat(cap) ==
    \E a \in AgentKeys :
        Do(Call("heartbeat", None, None, a, None, 0, 0, None), cap)

AcquireLock(cap) ==
    \E r \in Resources, a \in Agents, ttl \in TTLs :
        Do(Call("acquireLock", None, None, a, r, ttl, 0, None), cap)

ReleaseLock(cap) ==
    \E r \in Resources, a \in Agents :
        Do(Call("releaseLock", None, None, a, r, 0, 0, None), cap)

LoadState ==
    Do(Call("loadState", None, None, None, None, 0, 0, None), 0)

Resume ==
    /\ last # NoLast
    /\ last' = NoLast
    /\ UNCHANGED <<knowledge, doc, journal, now, held, pc, call, loaded, out>>

\* the wall clock advances between calls
Tick ==
    /\ last = NoLast
    /\ \A p \in Procs : pc[p] # "done"
    /\ now < MaxTime
    /\ now' = now + 1
    /\ UNCHANGED <<knowledge, doc, journal, last, held, pc, call, loaded, out>>

Next ==
    \/ CreateWorkstream(MaxVersion)
    \/ AddTask(MaxVersion)
    \/ ClaimTask(MaxVersion)
    \/ CompleteTask(MaxVersion)
    \/ GetNextTask(MaxVersion)
    \/ RegisterAgent(MaxVersion)
    \/ Heartbeat(MaxVersion)
    \/ AcquireLock(MaxVersion)
    \/ ReleaseLock(MaxVersion)
    \/ LoadState
    \/ Resume
    \/ Tick

Spec == Init /\ [][Next]_vars

BoardNext ==
    \/ CreateWorkstream(MaxBoardVersion)
    \/ AddTask(MaxBoardVersion)
    \/ ClaimTask(MaxBoardVersion)
    \/ CompleteTask(MaxBoardVersion)
    \/ GetNextTask(MaxBoardVersion)
    \/ Resume
    \/ Tick

BoardSpec == Init /\ [][BoardNext]_vars

LockNext ==
    \/ AcquireLock(MaxLockVersion)
    \/ ReleaseLock(MaxLockVersion)
    \/ Resume
    \/ Tick

LockSpec == Init /\ [][LockNext]_vars

\* The lock manager with a clock that never stops short of a lease's end:
\* the clock runs to LeaseHorizon, and a lease is asked for only if it ends
\* by then.  A call that has run returns (weak fairness of Resume), and the
\* clock advances whatever the callers do (strong fairness: a caller that
\* keeps calling does not hold the clock back).
LeaseHorizon == MaxTime + 1

AcquireLockInTime(cap) ==
    \E r \in Resources, a \in Agents, ttl \in TTLs :
        /\ now + ttl <= LeaseHorizon
        /\ Do(Call("acquireLock", None, None, a, r, ttl, 0, None), cap)

TickToHorizon ==
    /\ last = NoLast
    /\ now < LeaseHorizon
    /\ now' = now + 1
    /\ UNCHANGED <<knowledge, doc, journal, last, held, pc, call, loaded, out>>

LeaseNext ==
    \/ AcquireLockInTime(MaxLockVersion)
    \/ ReleaseLock(MaxLockVersion)
    \/ Resume
    \/ TickToHorizon

LeaseSpec ==
    Init /\ [][LeaseNext]_vars /\ WF_vars(Resume) /\ SF_vars(TickToHorizon)

----------------------------------------------------------------------------
(* The event journal used directly: logEvent and getEvents *)

\* { ...base, ...data }: the fields of data laid over those of base
Spread(base, data) ==
    [x \in DOMAIN base \cup DOMAIN data |->
        IF x \in DOMAIN data THEN data[x] ELSE base[x]]

\* JSON.stringify(event) read back by JSON.parse: a field whose value is
\* undefined is not written
Stringify(event) ==
    [x \in {y \in DOMAIN event : y = "ts" \/ event[y] # Undefined} |->
        event[x]]

\* fs.appendFileSync(EVENTS_PATH, line) with fs.writeFileSync in its place
WriteLine(lines, event) == <<Stringify(event)>>

\* fs.appendFileSync(EVENTS_PATH, JSON.stringify(event) + '\n')
AppendLine(lines, event) == Append(lines, Stringify(event))

\* the event object logEvent builds and returns
logEvent(t, agentId, action, data) ==
    Spread(Event(t, agentId, action, None, None, None), data)

\* events.slice(-n) for n > 0
SliceLast(events, n) ==
    IF Len(events) <= n THEN events
    ELSE SubSeq(events, Len(events) - n + 1, Len(events))

\* getEvents: `if (opts.x)` passes neither an option left out nor 0
getEvents(lines, opts) ==
    LET byAgent == IF opts.agent # None
                   THEN SelectSeq(lines, LAMBDA e : e.agent = opts.agent)
                   ELSE lines
        byAction == IF opts.action # None
                    THEN SelectSeq(byAgent, LAMBDA e : e.action = opts.action)
                    ELSE byAgent
        bySince == IF opts.since # Absent /\ opts.since # 0
                   THEN SelectSeq(byAction, LAMBDA e : e.ts >= opts.since)
                   ELSE byAction
    IN IF opts.last # Absent /\ opts.last # 0
       THEN SliceLast(bySince, opts.last)
       ELSE bySince

\* a direct call of logEvent: no load, no save, one line appended
LogEvent(cap) ==
    \E a \in LogAgents, act \in Actions, data \in DataInputs :
        LET event == logEvent(now, a, act, data)
        IN /\ last = NoLast
           /\ Len(journal) < cap
           /\ journal' = AppendLine(journal, event)
           /\ last' = [call |-> [op |-> "logEvent", agent |-> a,
                                 action |-> act, data |-> data],
                       ret |-> "event", idx |-> 0, events |-> <<event>>]
           /\ UNCHANGED <<knowledge, doc, now, held, pc, call, loaded, out>>

\* a call of getEvents: reads the journal, writes nothing
GetEvents ==
    \E opts \in QueryInputs :
        /\ last = NoLast
        /\ last' = [call |-> [op |-> "getEvents", opts |-> opts],
                    ret |-> "events", idx |-> 0,
                    events |-> getEvents(journal, opts)]
        /\ UNCHANGED <<knowledge, doc, journal, now, held, pc, call, loaded, out>>

\* callers that write the journal themselves, next to engine functions
\* that journal what they do
JournalNext ==
    \/ CreateWorkstream(MaxJournalVersion)
    \/ RegisterAgent(MaxJournalVersion)
    \/ LogEvent(MaxJournal)
    \/ GetEvents
    \/ Resume
    \/ Tick

JournalSpec == Init /\ [][JournalNext]_vars

----------------------------------------------------------------------------
(* The knowledge store and the functions that only read *)

\* path.join(KNOWLEDGE_DIR, `${topic}.md`): the name of the topic's file
FileOf(topic) == Append(topic, Md)

\* f.endsWith('.md')
EndsWithMd(f) == Len(f) > 0 /\ f[Len(f)] = Md

\* f.replace('.md', ''): the first '.md' of the name is taken out
RECURSIVE ReplaceFirstMd(_)
ReplaceFirstMd(f) ==
    IF f = <<>> THEN <<>>
    ELSE IF Head(f) = Md THEN Tail(f)
    ELSE <<Head(f)>> \o ReplaceFirstMd(Tail(f))

\* writeKnowledge: the file of the topic is (re)written as header + content
writeKnowledge(files, topic, content, agentId, t) ==
    [f \in DOMAIN files \cup {FileOf(topic)} |->
        IF f = FileOf(topic)
        THEN [agent |-> agentId, ts |-> t, content |-> content]
        ELSE files[f]]

\* what readKnowledge returns when the topic has no file
NoFile == [agent |-> Null, ts |-> 0, content |-> Null]

\* readKnowledge: the file of the topic, null if there is none
readKnowledge(files, topic) ==
    IF FileOf(topic) \in DOMAIN files THEN files[FileOf(topic)] ELSE NoFile

\* deleteKnowledge: fs.unlinkSync of the topic's file
deleteKnowledge(files, topic) ==
    [f \in DOMAIN files \ {FileOf(topic)} |-> files[f]]

\* listKnowledge: a name per file of the directory that ends in '.md'
listKnowledge(files) ==
    {ReplaceFirstMd(f) : f \in {g \in DOMAIN files : EndsWithMd(g)}}

\* `stale`: more than 5 minutes since last_seen
StaleAfter == 300000
\* status: getEvents({ last: 10 })
RecentEvents == 10

\* the number of tasks of the workstream ws with the status
CountTasks(ws, status) ==
    Cardinality({i \in 1..Len(ws.tasks) : ws.tasks[i].status = status})

\* the keys that are array indices ("7" is, "w1" is not) and their values
IndexKeys == {"7"}
KeyValue(name) == CASE name = "7" -> 7 [] OTHER -> 0

\* x put into sorted, places of index keys in ascending order of their value
RECURSIVE InsertByKey(_, _, _)
InsertByKey(wss, sorted, x) ==
    IF sorted = <<>> THEN <<x>>
    ELSE IF KeyValue(wss[sorted[Len(sorted)]].name) < KeyValue(wss[x].name)
         THEN Append(sorted, x)
         ELSE Append(InsertByKey(wss, SubSeq(sorted, 1, Len(sorted) - 1), x),
                     sorted[Len(sorted)])

\* the places up to n whose key is an index, ascending by value
RECURSIVE IndexPlaces(_, _)
IndexPlaces(wss, n) ==
    IF n = 0 THEN <<>>
    ELSE IF wss[n].name \in IndexKeys
         THEN InsertByKey(wss, IndexPlaces(wss, n - 1), n)
         ELSE IndexPlaces(wss, n - 1)

\* the places up to n whose key is not an index, in insertion order
RECURSIVE NamePlaces(_, _)
NamePlaces(wss, n) ==
    IF n = 0 THEN <<>>
    ELSE IF wss[n].name \in IndexKeys
         THEN NamePlaces(wss, n - 1)
         ELSE Append(NamePlaces(wss, n - 1), n)

\* Object.entries(state.workstreams): own keys in property order, the index
\* keys first in ascending numeric order, then the others as inserted
Entries(wss) == IndexPlaces(wss, Len(wss)) \o NamePlaces(wss, Len(wss))

\* listWorkstreams: an entry per workstream with its task counts, sorted by
\* priority
listWorkstreams(state) ==
    LET order == SortByPriority(state.workstreams, Entries(state.workstreams))
    IN [k \in 1..Len(order) |->
            LET ws == state.workstreams[order[k]]
            IN [name |-> ws.name, priority |-> ws.priority,
                status |-> ws.status, tasks |-> ws.tasks,
                created_at |-> ws.created_at,
                task_count |-> Len(ws.tasks),
                pending |-> CountTasks(ws, "pending"),
                in_progress |-> CountTasks(ws, "in_progress"),
                done |-> CountTasks(ws, "done")]]

\* the filter that keeps every stored lock
IsStored(lock, t) == TRUE

\* `Date.now() < expiresAt`, the filter of status on state.locks
IsActive(lock, t) == t < ExpiresAt(lock)

\* status with listWorkstreams reading the document status loaded itself
statusOneLoad(state, listed, lines, files, t) ==
    [version |-> state.version,
     updated_at |-> state.updated_at,
     workstreams |-> listWorkstreams(state),
     agents |-> [id \in DOMAIN state.agents |->
                    [type |-> state.agents[id].type,
                     status |-> state.agents[id].status,
                     registered_at |-> state.agents[id].registered_at,
                     last_seen |-> state.agents[id].last_seen,
                     stale |-> t - state.agents[id].last_seen > StaleAfter]],
     active_locks |-> [r \in {x \in DOMAIN state.locks :
                                 t < ExpiresAt(state.locks[x])} |->
                          state.locks[r]],
     recent_events |-> getEvents(lines,
                          [agent |-> None, action |-> None,
                           since |-> Absent, last |-> RecentEvents]),
     knowledge_topics |-> listKnowledge(files)]

\* status: the snapshot put together from the sub-reads; state is the
\* document status loads itself, listed the one its listWorkstreams() call
\* loads after it
status(state, listed, lines, files, t) ==
    [version |-> state.version,
     updated_at |-> state.updated_at,
     workstreams |-> listWorkstreams(listed),
     agents |-> [id \in DOMAIN state.agents |->
                    [type |-> state.agents[id].type,
                     status |-> state.agents[id].status,
                     registered_at |-> state.agents[id].registered_at,
                     last_seen |-> state.agents[id].last_seen,
                     stale |-> t - state.agents[id].last_seen > StaleAfter]],
     active_locks |-> [r \in {x \in DOMAIN state.locks :
                                 IsActive(state.locks[x], t)} |->
                          state.locks[r]],
     recent_events |-> getEvents(lines,
                          [agent |-> None, action |-> None,
                           since |-> Absent, last |-> RecentEvents]),
     knowledge_topics |-> listKnowledge(files)]

\* statusText: the lines rendered from the snapshot
statusText(state, listed, lines, files, t) ==
    LET s == status(state, listed, lines, files, t)
    IN [head |-> <<s.version, s.updated_at>>,
        workstreams |-> [k \in 1..Len(s.workstreams) |->
            [priority |-> s.workstreams[k].priority,
             name |-> s.workstreams[k].name,
             pending |-> s.workstreams[k].pending,
             in_progress |-> s.workstreams[k].in_progress,
             done |-> s.workstreams[k].done]],
        agents |-> [id \in DOMAIN s.agents |->
            [type |-> s.agents[id].type, status |-> s.agents[id].status,
             stale |-> s.agents[id].stale]],
        locks |-> [r \in DOMAIN s.active_locks |-> s.active_locks[r].agent],
        events |-> [k \in 1..Len(s.recent_events) |->
            [ts |-> s.recent_events[k].ts, agent |-> s.recent_events[k].agent,
             action |-> s.recent_events[k].action]],
        topics |-> s.knowledge_topics]

\* a call of a function that only reads
ReadCall(op, topic, opts) == [op |-> op, topic |-> topic, opts |-> opts]

\* the functions that only read, with the arguments passed
ReadCalls ==
    {ReadCall(op, None, NoQuery) :
        op \in {"status", "statusText", "listWorkstreams", "loadState",
                "listKnowledge"}}
    \cup {ReadCall("readKnowledge", topic, NoQuery) : topic \in Topics}
    \cup {ReadCall("getEvents", None, opts) : opts \in ReadQueries}

\* what a reading call returns
View(c, state, lines, files, t) ==
    CASE c.op = "status" -> <<status(state, state, lines, files, t)>>
      [] c.op = "statusText" -> <<statusText(state, state, lines, files, t)>>
      [] c.op = "listWorkstreams" -> <<listWorkstreams(state)>>
      [] c.op = "loadState" -> <<state>>
      [] c.op = "listKnowledge" -> <<listKnowledge(files)>>
      [] c.op = "readKnowledge" -> <<readKnowledge(files, c.topic)>>
      [] c.op = "getEvents" -> <<getEvents(lines, c.opts)>>

\* a reading call: a first one, or the same one made again at once
Read ==
    \E c \in ReadCalls :
        LET r == Return(doc, "view")
        IN /\ last = NoLast \/ last.call = c
           /\ doc' = IF r.save THEN SaveState(r.doc, now) ELSE doc
           /\ journal' = journal \o r.events
           /\ last' = [call |-> c, ret |-> r.ret, idx |-> 0,
                       view |-> View(c, doc', journal', knowledge, now)]
           /\ UNCHANGED <<knowledge, now, held, pc, call, loaded, out>>

\* a call of writeKnowledge that also saves the state document
WriteKnowledgeSaving(topics, cap) ==
    \E topic \in topics, content \in Contents, a \in LogAgents :
        /\ last = NoLast
        /\ Len(journal) < cap
        /\ knowledge' = writeKnowledge(knowledge, topic, content, a, now)
        /\ journal' = AppendLine(journal,
              logEvent(now, a, "knowledge_written", [topic |-> topic]))
        /\ last' = [call |-> [op |-> "writeKnowledge", topic |-> topic,
                              content |-> content, agent |-> a],
                    ret |-> Undefined, idx |-> 0]
        /\ doc' = SaveState(doc, now)
        /\ UNCHANGED <<now, held, pc, call, loaded, out>>

\* a call of writeKnowledge: the file is written, then the event logged
WriteKnowledge(topics, cap) ==
    \E topic \in topics, content \in Contents, a \in LogAgents :
        /\ last = NoLast
        /\ Len(journal) < cap
        /\ knowledge' = writeKnowledge(knowledge, topic, content, a, now)
        /\ journal' = AppendLine(journal,
              logEvent(now, a, "knowledge_written", [topic |-> topic]))
        /\ last' = [call |-> [op |-> "writeKnowledge", topic |-> topic,
                              content |-> content, agent |-> a],
                    ret |-> Undefined, idx |-> 0]
        /\ UNCHANGED <<doc, now, held, pc, call, loaded, out>>

\* a call of deleteKnowledge: false if the topic has no file, else the file
\* is removed, then the event logged
DeleteKnowledge(cap) ==
    \E topic \in Topics, a \in LogAgents :
        LET there == FileOf(topic) \in DOMAIN knowledge
        IN /\ last = NoLast
           /\ Len(journal) < cap
           /\ knowledge' = IF there THEN deleteKnowledge(knowledge, topic)
                           ELSE knowledge
           /\ journal' = IF there
                         THEN AppendLine(journal,
                                logEvent(now, a, "knowledge_deleted",
                                         [topic |-> topic]))
                         ELSE journal
           /\ last' = [call |-> [op |-> "deleteKnowledge", topic |-> topic,
                                 agent |-> a],
                       ret |-> IF there THEN "true" ELSE "false", idx |-> 0]
           /\ UNCHANGED <<doc, now, held, pc, call, loaded, out>>

\* callers that use the knowledge store
KnowledgeNext ==
    \/ WriteKnowledge(Topics, MaxKnowledgeOps)
    \/ DeleteKnowledge(MaxKnowledgeOps)
    \/ Read
    \/ Resume
    \/ Tick

KnowledgeSpec == Init /\ [][KnowledgeNext]_vars

\* acquireLock by the callers that also write the journal and the knowledge
\* store, on resources with a key of their own
AcquireOwnKey(cap) ==
    \E r \in Resources \ {Proto}, a \in LogAgents, ttl \in TTLs :
        Do(Call("acquireLock", None, None, a, r, ttl, 0, None), cap)

\* callers that read, next to callers that change what is read
ReadNext ==
    \/ CreateWorkstream(MaxReadVersion)
    \/ AddTask(MaxReadVersion)
    \/ RegisterAgent(MaxReadVersion)
    \/ AcquireOwnKey(MaxReadVersion)
    \/ WriteKnowledge(PlainTopics, MaxJournal)
    \/ Read
    \/ Resume
    \/ Tick

ReadSpec == Init /\ [][ReadNext]_vars

----------------------------------------------------------------------------
(* Two processes sharing state.json and events.jsonl.  A call is           *)
(* synchronous inside its process; between processes the file operations   *)
(* interleave: loadState (readFileSync), saveState (writeFileSync) and     *)
(* logEvent (appendFileSync) are the steps.                                *)

\* each process runs one agent
AgentOf(p) == IF p = "p1" THEN "a1" ELSE "a2"

\* the calls a process issues to the task board
BoardCalls(p) ==
    {Call("createWorkstream", ws, None, None, None, 0, 0, None) : ws \in WsNames}
    \cup {Call("addTask", ws, id, None, None, 0, 0, None) :
            ws \in WsNames, id \in TaskIds}
    \cup {Call("claimTask", ws, id, AgentOf(p), None, 0, 0, None) :
            ws \in WsNames, id \in TaskIds}
    \cup {Call("getNextTask", ws, None, AgentOf(p), None, 0, 0, None) :
            ws \in WsNames}

\* the calls a process issues to the lock manager
LockCalls(p) ==
    {Call("acquireLock", None, None, AgentOf(p), r, ttl, 0, None) :
            r \in Resources \ {Proto}, ttl \in TTLs}
    \cup {Call("releaseLock", None, None, AgentOf(p), r, 0, 0, None) :
            r \in Resources \ {Proto}}

\* the handler is entered: its first statement is loadState()
Begin(p, calls) ==
    /\ pc[p] = "idle"
    /\ \E c \in calls :
        /\ call' = [call EXCEPT ![p] = c]
        /\ loaded' = [loaded EXCEPT ![p] = doc]
        /\ pc' = [pc EXCEPT ![p] = "loaded"]
    /\ UNCHANGED <<knowledge, doc, journal, now, last, held, out>>

\* getNextTask, lines 199-207: picks pending[0] from the document it loaded
\* and calls claimTask, which has not loaded yet
Select(p) ==
    /\ pc[p] = "loaded"
    /\ call[p].op = "getNextTask"
    /\ LET c == call[p]
           state == loaded[p]
           sel == IF WsHas(state, c.ws) THEN SelectNext(Tasks(state, c.ws)) ELSE 0
       IN IF sel = 0
          THEN LET r == getNextTask(state, c.ws, c.agent, now)
               IN /\ out' = [out EXCEPT ![p] =
                                [ret |-> r.ret, idx |-> 0, events |-> <<>>]]
                  /\ pc' = [pc EXCEPT ![p] = "done"]
                  /\ UNCHANGED call
          ELSE /\ call' = [call EXCEPT ![p].id = Tasks(state, c.ws)[sel].id]
               /\ out' = [out EXCEPT ![p].idx = sel]
               /\ pc' = [pc EXCEPT ![p] = "claim"]
    /\ UNCHANGED <<knowledge, doc, journal, now, last, held, loaded>>

\* claimTask called from getNextTask: its own loadState()
Reload(p) ==
    /\ pc[p] = "claim"
    /\ loaded' = [loaded EXCEPT ![p] = doc]
    /\ pc' = [pc EXCEPT ![p] = "claiming"]
    /\ UNCHANGED <<knowledge, doc, journal, now, last, held, call, out>>

\* the handler run on the stored document at the moment of the save, as if
\* load, mutate and save were one step
ConcHandleOnStored(p) ==
    IF pc[p] = "claiming"
    THEN claimTask(doc, call[p].ws, call[p].id, call[p].agent, now)
    ELSE Handle(call[p], doc, now)

\* the handler run by process p on the document it loaded
ConcHandle(p) ==
    IF pc[p] = "claiming"
    THEN claimTask(loaded[p], call[p].ws, call[p].id, call[p].agent, now)
    ELSE Handle(call[p], loaded[p], now)

\* saveState calls so far: each is followed by one logEvent
Saves == Len(journal) + Cardinality({p \in Procs : pc[p] = "saved"})

\* validate, mutate and saveState(): the whole document is overwritten
Save(p, cap) ==
    /\ \/ pc[p] = "loaded" /\ call[p].op # "getNextTask"
       \/ pc[p] = "claiming"
    /\ LET r == ConcHandle(p)
       IN /\ r.save => Saves < cap
          /\ (call[p].op = "addTask" /\ r.save) =>
                Len(TasksOf(loaded[p], call[p].ws)) < MaxTasks
          /\ doc' = IF r.save THEN SaveState(r.doc, now) ELSE doc
          /\ out' = [out EXCEPT ![p] =
                        [ret |-> r.ret, idx |-> r.idx, events |-> r.events]]
          /\ pc' = [pc EXCEPT ![p] = IF r.save THEN "saved" ELSE "done"]
          /\ held' = Leases(held, call[p], r.ret, now)
    /\ UNCHANGED <<knowledge, journal, now, last, call, loaded>>

\* logEvent() after the save
Log(p) ==
    /\ pc[p] = "saved"
    /\ journal' = journal \o out[p].events
    /\ pc' = [pc EXCEPT ![p] = "done"]
    /\ UNCHANGED <<knowledge, doc, now, last, held, call, loaded, out>>

\* the call has returned out[p].ret; the process goes on
Finish(p) ==
    /\ pc[p] = "done"
    /\ pc' = [pc EXCEPT ![p] = "idle"]
    /\ call' = [call EXCEPT ![p] = NoCall]
    /\ loaded' = [loaded EXCEPT ![p] = EmptyDoc]
    /\ out' = [out EXCEPT ![p] = NoOut]
    /\ UNCHANGED <<knowledge, doc, journal, now, last, held>>

ConcBoardNext ==
    \/ \E p \in Procs : Begin(p, BoardCalls(p))
    \/ \E p \in Procs : Select(p)
    \/ \E p \in Procs : Reload(p)
    \/ \E p \in Procs : Save(p, MaxConcBoardSaves)
    \/ \E p \in Procs : Log(p)
    \/ \E p \in Procs : Finish(p)
    \/ Tick

ConcBoardSpec == Init /\ [][ConcBoardNext]_vars

\* the same processes with room for a workstream and one call of each
MaxOverwriteSaves == 3

OverwriteNext ==
    \/ \E p \in Procs : Begin(p, BoardCalls(p))
    \/ \E p \in Procs : Select(p)
    \/ \E p \in Procs : Reload(p)
    \/ \E p \in Procs : Save(p, MaxOverwriteSaves)
    \/ \E p \in Procs : Log(p)
    \/ \E p \in Procs : Finish(p)
    \/ Tick

OverwriteSpec == Init /\ [][OverwriteNext]_vars

ConcLockNext ==
    \/ \E p \in Procs : Begin(p, LockCalls(p))
    \/ \E p \in Procs : Save(p, MaxConcLockSaves)
    \/ \E p \in Procs : Log(p)
    \/ \E p \in Procs : Finish(p)
    \/ Tick

ConcLockSpec == Init /\ [][ConcLockNext]_vars

----------------------------------------------------------------------------
(* Properties *)

Errors == {"AlreadyExists", "NotFound", "InvalidState", "TypeError"}

\* a step of Spec, BoardSpec or LockSpec that is one whole call
IsCall == last = NoLast /\ last' # NoLast

\* the calls that persist a change: a create, add, claim or complete that
\* raises nothing, a getNextTask that returns a task, a registerAgent, a
\* heartbeat of an agent the document records, a granted acquireLock, a
\* successful releaseLock
Persisting(c, ret, state) ==
    \/ /\ c.op \in {"createWorkstream", "addTask", "claimTask", "completeTask"}
       /\ ret \notin Errors
    \/ c.op = "getNextTask" /\ ret = "task"
    \/ c.op = "registerAgent"
    \/ c.op = "heartbeat" /\ c.agent \in DOMAIN state.agents
    \/ c.op \in {"acquireLock", "releaseLock"} /\ ret = "true"

\* C1: version starts at 0; a call that persists a change leaves version
\* exactly 1 greater than before; every other call (raised error, denied lock,
\* failed release, heartbeat of an unknown agent, getNextTask with nothing
\* pending, a read) leaves version unchanged.
C1_VersionCountsPersistingCalls ==
    /\ doc.version = 0
    /\ [][IF IsCall /\ Persisting(last'.call, last'.ret, doc)
          THEN doc'.version = doc.version + 1
          ELSE doc'.version = doc.version]_vars

\* C1 apart from the inherited key: it holds of every call but
\* heartbeat("__proto__")
C1_ExceptInheritedKey ==
    /\ doc.version = 0
    /\ [][(IsCall /\ ~(last'.call.op = "heartbeat" /\ last'.call.agent = Proto))
          => IF Persisting(last'.call, last'.ret, doc)
             THEN doc'.version = doc.version + 1
             ELSE doc'.version = doc.version]_vars

\* the stored entry of resource has run out at t
Expired(state, resource, t) == t >= ExpiresAt(state.locks[resource])

\* acquireLock(r, b) returns success only if r has no entry, or its entry has
\* expired, or its entry's holder is b
GrantOnlyIfFree(rs) ==
    (IsCall /\ last'.call.op = "acquireLock" /\ last'.ret = "true"
        /\ last'.call.resource \in rs)
    => LET r == last'.call.resource
       IN \/ r \notin DOMAIN doc.locks
          \/ Expired(doc, r, now)
          \/ doc.locks[r].agent = last'.call.agent

\* acquireLock(r, b) returns failure whenever another agent holds an
\* unexpired lock on r
DenyWhileHeld(rs) ==
    (IsCall /\ last'.call.op = "acquireLock" /\ last'.call.resource \in rs
        /\ \E a \in Agents \ {last'.call.agent} : Holds(last'.call.resource, a))
    => last'.ret = "false"

\* no two different agents both hold an unexpired lease on the same resource
MutualExclusion(rs) ==
    \A r \in rs : \A a, b \in Agents :
        (a # b) => ~(Holds(r, a) /\ Holds(r, b))

\* C2: lock mutual exclusion for calls executed one at a time: acquireLock(r, b)
\* succeeds only if r has no entry, or its entry has expired, or its holder is
\* b; at no time do two different agents both hold an unexpired lease on the
\* same resource; acquireLock(r, b) fails whenever another agent holds an
\* unexpired lock on r.
C2_LockMutualExclusion ==
    /\ []MutualExclusion(Resources)
    /\ [][GrantOnlyIfFree(Resources) /\ DenyWhileHeld(Resources)]_vars

\* C2 apart from the inherited key: it holds of every resource whose lock
\* entry the document stores
C2_ExceptInheritedKey ==
    /\ []MutualExclusion(Resources \ {Proto})
    /\ [][GrantOnlyIfFree(Resources \ {Proto})
          /\ DenyWhileHeld(Resources \ {Proto})]_vars

\* a claimTask call on a task the workstream holds succeeds exactly when the
\* task is pending, and then the task is in_progress and assigned to the
\* caller; otherwise it raises InvalidState and changes nothing
ClaimIffPending ==
    (IsCall /\ last'.call.op = "claimTask")
    => LET c == last'.call
           tasks == TasksOf(doc, c.ws)
           i == FindTask(tasks, c.id)
       IN (i # 0) =>
            IF tasks[i].status = "pending"
            THEN /\ last'.ret = "task"
                 /\ last'.idx = i
                 /\ TasksOf(doc', c.ws)[i].status = "in_progress"
                 /\ TasksOf(doc', c.ws)[i].assigned_to = c.agent
            ELSE /\ last'.ret = "InvalidState"
                 /\ doc' = doc
                 /\ journal' = journal

\* a task that has left pending is never pending again
NeverPendingAgain ==
    \A ws \in WsNames : \A i \in 1..Len(TasksOf(doc, ws)) :
        (TasksOf(doc, ws)[i].status # "pending")
        => /\ i <= Len(TasksOf(doc', ws))
           /\ TasksOf(doc', ws)[i].status # "pending"

\* the task_claimed events of one task
ClaimsOf(ws, id) ==
    {k \in 1..Len(journal) :
        /\ journal[k].action = "task_claimed"
        /\ journal[k].workstream = ws
        /\ journal[k].task_id = id}

ClaimedAtMostOnce ==
    \A ws \in WsNames : \A id \in TaskIds : Cardinality(ClaimsOf(ws, id)) <= 1

\* C3: for calls executed one at a time, claimTask succeeds exactly when the
\* task is pending and then sets status = in_progress and assigned_to = the
\* caller; every later claimTask on that task, by any agent, raises
\* InvalidState; each task is claimed at most once.
C3_ClaimOnlyPendingOnce ==
    /\ []ClaimedAtMostOnce
    /\ [][ClaimIffPending /\ NeverPendingAgain]_vars

\* C3 witness: a claimTask by another agent has just been refused on a task
\* that is in progress for its first claimant
C3_Witness ==
    /\ last.call.op = "claimTask"
    /\ last.ret = "InvalidState"
    /\ \E i \in 1..Len(TasksOf(doc, last.call.ws)) :
        /\ i = FindTask(TasksOf(doc, last.call.ws), last.call.id)
        /\ TasksOf(doc, last.call.ws)[i].status = "in_progress"
        /\ TasksOf(doc, last.call.ws)[i].assigned_to # last.call.agent
        /\ Cardinality(ClaimsOf(last.call.ws, last.call.id)) = 1

\* the pending task of the numerically lowest stored priority, the earliest
\* created among equals
LowestPending(tasks) ==
    CHOOSE i \in 1..Len(tasks) :
        /\ tasks[i].status = "pending"
        /\ \A j \in 1..Len(tasks) :
              (tasks[j].status = "pending")
              => \/ tasks[i].priority < tasks[j].priority
                 \/ (tasks[i].priority = tasks[j].priority /\ i <= j)

NonePending(tasks) == \A i \in 1..Len(tasks) : tasks[i].status # "pending"

UniqueIds(tasks) ==
    \A i, j \in 1..Len(tasks) : (tasks[i].id = tasks[j].id) => i = j

\* what the claim says of a getNextTask step on an existing workstream
GetNextAsClaimed ==
    LET c == last'.call
        tasks == TasksOf(doc, c.ws)
    IN IF NonePending(tasks)
       THEN /\ last'.ret = "null"
            /\ doc' = doc
            /\ journal' = journal
       ELSE LET i == LowestPending(tasks)
            IN /\ last'.ret = "task"
               /\ last'.idx = i
               /\ TasksOf(doc', c.ws)[i].status = "in_progress"
               /\ TasksOf(doc', c.ws)[i].assigned_to = c.agent

\* C6: getNextTask on an existing workstream selects the pending task of the
\* numerically lowest stored priority, the earliest in stored order among
\* equals, and returns that task claimed for the caller (in_progress, assigned
\* to it); with no task pending it returns the no-task sentinel and changes
\* neither the document nor the journal.
C6_GetNextClaimsLowestPending ==
    [][(IsCall /\ last'.call.op = "getNextTask" /\ WsHas(doc, last'.call.ws))
       => GetNextAsClaimed]_vars

\* C6 while the ids of the workstream's tasks are pairwise different
C6_WhileIdsAreUnique ==
    [][(IsCall /\ last'.call.op = "getNextTask" /\ WsHas(doc, last'.call.ws)
          /\ UniqueIds(TasksOf(doc, last'.call.ws)))
       => GetNextAsClaimed]_vars

\* the call of process p has saved its claim of task i of workstream ws
ClaimedBy(p, ws, i) ==
    /\ pc[p] \in {"saved", "done"}
    /\ call[p].op \in {"claimTask", "getNextTask"}
    /\ call[p].ws = ws
    /\ out[p].ret = "task"
    /\ out[p].idx = i

\* C4: when two claimTask or getNextTask calls for the same pending task come
\* from different processes and their load and save steps interleave, at most
\* one of the two calls succeeds.
C4_ConcurrentClaimsExclusive ==
    \A ws \in WsNames : \A i \in 1..MaxTasks :
        ~(/\ ClaimedBy("p1", ws, i)
          /\ ClaimedBy("p2", ws, i)
          /\ loaded["p1"] = loaded["p2"])

\* the call of process p has been granted the lock on resource
GrantedTo(p, resource) ==
    /\ pc[p] \in {"saved", "done"}
    /\ call[p].op = "acquireLock"
    /\ call[p].resource = resource
    /\ out[p].ret = "true"

\* C5: when acquireLock calls on the same free or expired resource come from
\* two different agents in different processes and their load and save steps
\* interleave, at most one of the two calls returns success.  Stated of two
\* grants whose leases are both still running, which calls made one after
\* the other never both get.
C5_ConcurrentAcquiresExclusive ==
    \A r \in Resources :
        ~(/\ GrantedTo("p1", r)
          /\ GrantedTo("p2", r)
          /\ loaded["p1"] = loaded["p2"]
          /\ Holds(r, AgentOf("p1"))
          /\ Holds(r, AgentOf("p2")))

\* the stored lock entry of resource
Lock(state, resource) == state.locks[resource]

\* C7: re-entrancy: acquireLock(r, a, ttl) by the agent a whose lock entry r
\* holds returns success whether or not the lease has expired, and replaces
\* the entry: holder a, acquired_at = the time of this call, ttl_ms = the ttl
\* of this call.
C7_HolderReacquires ==
    [][(/\ IsCall
        /\ last'.call.op = "acquireLock"
        /\ last'.call.resource \in DOMAIN doc.locks
        /\ Lock(doc, last'.call.resource).agent = last'.call.agent)
       => /\ last'.ret = "true"
          /\ last'.call.resource \in DOMAIN doc'.locks
          /\ Lock(doc', last'.call.resource) =
                [agent |-> last'.call.agent, acquired_at |-> now,
                 ttl_ms |-> last'.call.ttl]]_vars

\* the last two journal entries are action a1 then action a2, both by the
\* agent and on the resource of the call that has just returned
LastTwoEvents(a1, a2, agentOfFirst) ==
    LET n == Len(journal)
    IN /\ n >= 2
       /\ journal[n - 1].action = a1
       /\ journal[n].action = a2
       /\ journal[n - 1].resource = last.call.resource
       /\ journal[n].resource = last.call.resource
       /\ journal[n - 1].agent = agentOfFirst
       /\ journal[n].agent = last.call.agent

\* C7 witness: the holder has re-acquired at a later instant than its first
\* acquire, and the entry carries the later instant
C7_Witness ==
    /\ last.call.op = "acquireLock"
    /\ last.ret = "true"
    /\ LastTwoEvents("lock_acquired", "lock_acquired", last.call.agent)
    /\ journal[Len(journal) - 1].ts < now
    /\ last.call.resource \in DOMAIN doc.locks
    /\ Lock(doc, last.call.resource).acquired_at = now

\* the entry of resource is held, unexpired, by an agent other than agentId
HeldUnexpiredByOther(state, resource, agentId, t) ==
    /\ resource \in DOMAIN state.locks
    /\ Lock(state, resource).agent # agentId
    /\ t < Lock(state, resource).acquired_at + Lock(state, resource).ttl_ms

\* C8: an acquireLock on a resource held, unexpired, by a different agent is
\* denied: it returns a failure value, raises nothing, and leaves the state
\* document (locks, version, updated_at) and the journal unchanged.
C8_DeniedAcquireChangesNothing ==
    [][(IsCall /\ last'.call.op = "acquireLock")
       => /\ HeldUnexpiredByOther(doc, last'.call.resource, last'.call.agent, now)
             => last'.ret = "false"
          /\ (last'.ret # "true")
             => /\ last'.ret = "false"
                /\ doc' = doc
                /\ journal' = journal]_vars

\* C8 witness: an acquireLock has just been denied
C8_Witness ==
    /\ last.call.op = "acquireLock"
    /\ last.ret = "false"
    /\ HeldUnexpiredByOther(doc, last.call.resource, last.call.agent, now)

\* C9: releaseLock(r, a) returns success exactly when an entry exists for r
\* and its holder is a, expired or not; then the entry is removed and a
\* lock_released event is journaled; in every other case it returns failure
\* and leaves state and journal unchanged.
C9_ReleaseOnlyByHolder ==
    [][(IsCall /\ last'.call.op = "releaseLock")
       => LET r == last'.call.resource
              a == last'.call.agent
          IN IF r \in DOMAIN doc.locks /\ Lock(doc, r).agent = a
             THEN /\ last'.ret = "true"
                  /\ DOMAIN doc'.locks = DOMAIN doc.locks \ {r}
                  /\ \A x \in DOMAIN doc'.locks : Lock(doc', x) = Lock(doc, x)
                  /\ journal' = Append(journal,
                        [ts |-> now, agent |-> a, action |-> "lock_released",
                         workstream |-> None, task_id |-> None, resource |-> r])
             ELSE /\ last'.ret = "false"
                  /\ doc' = doc
                  /\ journal' = journal]_vars

\* C9 witness: the holder has released a lease that had run out whatever
\* its ttl was
C9_Witness ==
    /\ last.call.op = "releaseLock"
    /\ last.ret = "true"
    /\ LastTwoEvents("lock_acquired", "lock_released", last.call.agent)
    /\ \A ttl \in TTLs : now >= journal[Len(journal) - 1].ts + ttl
    /\ last.call.resource \notin DOMAIN doc.locks

\* C10: a lock acquired with ttl_ms = 0 is acquirable by a different agent
\* at once, the same clock instant included, and so is any lock past its
\* expiry: the acquireLock of the other agent returns success.
C10_ZeroTtlOrPastExpiryIsFree ==
    [][(/\ IsCall
        /\ last'.call.op = "acquireLock"
        /\ last'.call.resource \in DOMAIN doc.locks
        /\ Lock(doc, last'.call.resource).agent # last'.call.agent
        /\ \/ Lock(doc, last'.call.resource).ttl_ms = 0
           \/ now > Lock(doc, last'.call.resource).acquired_at
                        + Lock(doc, last'.call.resource).ttl_ms)
       => /\ last'.ret = "true"
          /\ last'.call.resource \in DOMAIN doc'.locks
          /\ Lock(doc', last'.call.resource).agent = last'.call.agent]_vars

\* C10 witness: a different agent has been granted the lock at the very
\* instant of the previous holder's acquire
C10_Witness ==
    /\ last.call.op = "acquireLock"
    /\ last.ret = "true"
    /\ \E other \in Agents \ {last.call.agent} :
          LastTwoEvents("lock_acquired", "lock_acquired", other)
    /\ journal[Len(journal) - 1].ts = now
    /\ last.call.resource \in DOMAIN doc.locks
    /\ Lock(doc, last.call.resource).agent = last.call.agent


\* the stored entry of resource names agentId and makes acquireLock deny
\* some other agent
Blocks(resource, agentId) ==
    /\ resource \in DOMAIN doc.locks
    /\ Lock(doc, resource).agent = agentId
    /\ \E b \in Agents \ {agentId} : HeldByOther(doc, resource, b, now)

\* agentId calls acquireLock or releaseLock on resource
CallsOn(resource, agentId) ==
    /\ IsCall
    /\ last'.call.op \in {"acquireLock", "releaseLock"}
    /\ last'.call.resource = resource
    /\ last'.call.agent = agentId

\* every lease of agentId on resource stops blocking the other agents,
\* unless agentId goes on calling on resource for ever
LeaseRunsOut(resource, agentId) ==
    \/ []<><<CallsOn(resource, agentId)>>_vars
    \/ Blocks(resource, agentId) ~> ~Blocks(resource, agentId)

\* a lease that has stopped blocking blocks again only by a call of its
\* agent, and an acquireLock that no other agent's lease blocks is granted
OnceFreeStaysFree ==
    [][/\ \A r \in Resources, a \in Agents :
            (~Blocks(r, a) /\ Blocks(r, a)') => CallsOn(r, a)
       /\ (/\ IsCall
           /\ last'.call.op = "acquireLock"
           /\ \A a \in Agents \ {last'.call.agent} :
                 ~Blocks(last'.call.resource, a))
          => last'.ret = "true"]_vars

\* C11: no permanent deadlock from a crashed holder: if agent a holds a lock
\* on r and never again calls acquireLock or releaseLock on r, then as time
\* advances the lease runs out, and from then on an acquireLock(r, b) by
\* another agent b is granted.
C11_CrashedHolderLeaseRunsOut ==
    /\ \A r \in Resources, a \in Agents : LeaseRunsOut(r, a)
    /\ OnceFreeStaysFree

\* C11 witness: an agent has been granted the lock that another agent took
\* for a lease of positive length, let run out and never released
C11_Witness ==
    /\ last.call.op = "acquireLock"
    /\ last.ret = "true"
    /\ \E other \in Agents \ {last.call.agent} :
          /\ LastTwoEvents("lock_acquired", "lock_acquired", other)
          /\ held[last.call.resource][other] > journal[Len(journal) - 1].ts
          /\ held[last.call.resource][other] <= now

\* what createWorkstream does on a name that is, and on one that is not, a
\* key of state.workstreams, for the names in names
CreateStep(names) ==
       (/\ IsCall
        /\ last'.call.op = "createWorkstream"
        /\ last'.call.ws \in names)
       => IF WsHas(doc, last'.call.ws)
          THEN /\ last'.ret = "AlreadyExists"
               /\ doc' = doc
               /\ journal' = journal
          ELSE /\ last'.ret = "workstream"
               /\ Len(doc'.workstreams) = Len(doc.workstreams) + 1
               /\ SubSeq(doc'.workstreams, 1, Len(doc.workstreams))
                     = doc.workstreams
               /\ LET ws == doc'.workstreams[Len(doc'.workstreams)]
                  IN /\ ws.name = last'.call.ws
                     /\ ws.status = "active"
                     /\ ws.tasks = <<>>
               /\ doc'.version = doc.version + 1
               /\ journal' = Append(journal,
                     [ts |-> now, agent |-> "system",
                      action |-> "workstream_created",
                      workstream |-> last'.call.ws,
                      task_id |-> None, resource |-> None])

\* C12: createWorkstream(name) fails with AlreadyExists whenever name is
\* already a workstream key, leaving state document and journal as they
\* were; when name is not a key it inserts a workstream with status active
\* and no tasks and journals workstream_created.
C12_CreateWorkstreamOnceOnly == [][CreateStep(WsKeys)]_vars

\* the same for every name but the inherited key
C12_ExceptInheritedKey == [][CreateStep(WsKeys \ {Proto})]_vars

\* the tasks of the workstream name that carry the id
WithId(state, name, id) ==
    {i \in 1..Len(TasksOf(state, name)) : TasksOf(state, name)[i].id = id}

\* the error each task function raises, and what an error leaves behind, for
\* the workstream names in names
TaskErrorStep(names) ==
    (/\ IsCall
     /\ last'.call.op \in {"addTask", "claimTask", "completeTask", "getNextTask"}
     /\ last'.call.ws \in names)
    => LET c == last'.call
           ids == WithId(doc, c.ws, c.id)
       IN /\ ~WsHas(doc, c.ws) => last'.ret = "NotFound"
          /\ (/\ WsHas(doc, c.ws)
              /\ c.op \in {"claimTask", "completeTask"}
              /\ ids = {})
             => last'.ret = "NotFound"
          /\ (/\ WsHas(doc, c.ws)
              /\ c.op = "claimTask"
              /\ ids # {}
              /\ \A i \in ids : TasksOf(doc, c.ws)[i].status # "pending")
             => last'.ret = "InvalidState"
          /\ last'.ret \in Errors => (doc' = doc /\ journal' = journal)

\* C13: addTask, claimTask, completeTask and getNextTask raise NotFound when
\* the named workstream is absent; claimTask and completeTask raise NotFound
\* when the task id is absent from the workstream; claimTask raises
\* InvalidState when the task is not pending; every such error leaves the
\* state document (version included) and the journal unchanged.
C13_TaskErrors == [][TaskErrorStep(WsKeys)]_vars

\* the same for every workstream name but the inherited key
C13_ExceptInheritedKey == [][TaskErrorStep(WsKeys \ {Proto})]_vars

\* the first of the places in a non-empty set of places
First(places) == CHOOSE i \in places : \A j \in places : i <= j

\* C14: completeTask(w, id, R) on an existing task succeeds whatever the
\* task's status, sets status = done and result = R, leaves assigned_to (and
\* every other task) as it was, and journals exactly one task_completed
\* event whose agent is the task's assignee, or "system" if it has none.
C14_CompleteFromAnyStatus ==
    [][(/\ IsCall
        /\ last'.call.op = "completeTask"
        /\ WithId(doc, last'.call.ws, last'.call.id) # {})
       => LET c == last'.call
              i == First(WithId(doc, c.ws, c.id))
              old == TasksOf(doc, c.ws)
              new == TasksOf(doc', c.ws)
          IN /\ last'.ret = "task"
             /\ last'.idx = i
             /\ Len(new) = Len(old)
             /\ \A j \in 1..Len(old) : j # i => new[j] = old[j]
             /\ new[i] = [old[i] EXCEPT !.status = "done",
                                        !.result = c.result,
                                        !.updated_at = now]
             /\ new[i].assigned_to = old[i].assigned_to
             /\ journal' = Append(journal,
                   [ts |-> now,
                    agent |-> IF old[i].assigned_to = Null
                              THEN "system" ELSE old[i].assigned_to,
                    action |-> "task_completed", workstream |-> c.ws,
                    task_id |-> c.id, resource |-> None])]_vars

\* C14 witness: a task that was never claimed has been completed a second
\* time, from status done, both events going to "system"
C14_Witness ==
    /\ last.call.op = "completeTask"
    /\ last.ret = "task"
    /\ Len(journal) >= 2
    /\ journal[Len(journal)].action = "task_completed"
    /\ journal[Len(journal)].agent = "system"
    /\ journal[Len(journal) - 1].action = "task_completed"
    /\ journal[Len(journal) - 1].task_id = last.call.id
    /\ TasksOf(doc, last.call.ws)[last.idx].status = "done"
    /\ TasksOf(doc, last.call.ws)[last.idx].assigned_to = Null

\* a step that rewrites the state document appends exactly one journal
\* entry, for the functions in ops
JournaledStep(ops) ==
    (IsCall /\ last'.call.op \in ops /\ doc'.version # doc.version)
    => /\ Len(journal') = Len(journal) + 1
       /\ SubSeq(journal', 1, Len(journal)) = journal

\* the functions of the engine that callers run
Ops ==
    {"createWorkstream", "addTask", "claimTask", "completeTask", "getNextTask",
     "registerAgent", "heartbeat", "acquireLock", "releaseLock", "loadState"}

\* C15: every state change is journaled: each call that rewrites the state
\* document (increments version) also appends exactly one journal entry, so
\* there is no version increment without a journal entry.
C15_EverySaveJournaled == [][JournaledStep(Ops)]_vars

\* the same for every function but heartbeat
C15_ExceptHeartbeat == [][JournaledStep(Ops \ {"heartbeat"})]_vars

\* s is the front of t
IsPrefix(s, t) == Len(s) <= Len(t) /\ SubSeq(t, 1, Len(s)) = s

\* C16: the journal is append-only: no operation removes, reorders or alters
\* an entry, the journal before any step is the front of the journal after
\* it, and a query without filters returns every entry in append order.
C16_JournalAppendOnly ==
    [][/\ IsPrefix(journal, journal')
       /\ (IsCall /\ last'.call.op = "getEvents" /\ last'.call.opts = NoQuery)
          => last'.events = journal]_vars

\* C16 witness: a query without filters has returned an entry written by an
\* engine function and, behind it, one written by logEvent
C16_Witness ==
    /\ last.call.op = "getEvents"
    /\ last.call.opts = NoQuery
    /\ Len(last.events) >= 2
    /\ last.events[1].action # "act"
    /\ last.events[2].action = "act"
    /\ last.events = journal

\* the journal before any engine call is the front of the journal after it
EngineAppendsOnly == [][IsPrefix(journal, journal')]_vars

\* the fields every event carries
HeaderFields == {"ts", "agent", "action"}

\* the entries of a sequence
Range(seq) == {seq[i] : i \in 1..Len(seq)}

\* what logEvent(a, act, data) records, for the data mappings in inputs
LogStep(inputs) ==
    (IsCall /\ last'.call.op = "logEvent" /\ last'.call.data \in inputs)
    => LET c == last'.call
           rec == journal'[Len(journal')]
       IN /\ Len(journal') = Len(journal) + 1
          /\ rec.agent = c.agent
          /\ rec.action = c.action
          /\ rec \in Range(getEvents(journal',
                [agent |-> c.agent, action |-> c.action,
                 since |-> Absent, last |-> Absent]))
          /\ \A k \in DOMAIN c.data :
                c.data[k] # Undefined
                => (k \in DOMAIN rec /\ rec[k] = c.data[k])

\* C17: for every agent id a, action act and mapping data, after
\* logEvent(a, act, data) the recorded event carries agent = a and
\* action = act, is returned by the query {agent: a, action: act}, and
\* carries every field that data supplies (with a value other than
\* undefined, which JSON does not record) with the value supplied.
C17_LoggedEventRetrievable == [][LogStep(DataInputs)]_vars

\* the same when data names none of ts, agent and action
C17_WhenDataNamesNoHeaderField ==
    [][LogStep({d \in DataInputs : DOMAIN d \cap HeaderFields = {}})]_vars

\* the event passes every filter that opts gives
Matches(e, opts) ==
    /\ opts.agent # None => e.agent = opts.agent
    /\ opts.action # None => e.action = opts.action
    /\ opts.since # Absent => e.ts >= opts.since

\* what getEvents(opts) returns, for the values of opts.last in lasts
QueryStep(lasts) ==
    (IsCall /\ last'.call.op = "getEvents" /\ last'.call.opts.last \in lasts)
    => LET opts == last'.call.opts
           filtered == SelectSeq(journal, LAMBDA e : Matches(e, opts))
           n == opts.last
       IN /\ journal' = journal
          /\ IF n = Absent THEN last'.events = filtered
             ELSE /\ Len(last'.events) <= n
                  /\ Len(last'.events) = IF Len(filtered) <= n
                                         THEN Len(filtered) ELSE n
                  /\ \A i \in 1..Len(last'.events) :
                        last'.events[i] =
                            filtered[Len(filtered) - Len(last'.events) + i]

\* C18: getEvents applies the agent, action and since filters conjunctively,
\* and for every non-negative integer N given as last it returns at most N
\* records: the final N (or all, if fewer) of the filtered sequence, in
\* journal order.
C18_QueryFiltersThenLastN == [][QueryStep({Absent, 0, 1, 2})]_vars

\* the same when last is left out or positive
C18_WhenLastIsPositive == [][QueryStep({Absent, 1, 2})]_vars

\* what heartbeat(id) does for a registered and for an unregistered id, for
\* the ids in ids
HeartbeatStep(ids) ==
    (IsCall /\ last'.call.op = "heartbeat" /\ last'.call.agent \in ids)
    => LET a == last'.call.agent
       IN /\ last'.ret \notin Errors
          /\ journal' = journal
          /\ IF a \in DOMAIN doc.agents
             THEN doc' = [doc EXCEPT !.agents[a].last_seen = now,
                                     !.agents[a].status = "active",
                                     !.version = @ + 1,
                                     !.updated_at = now]
             ELSE doc' = doc

\* C19: heartbeat(id) for a registered agent sets last_seen to the current
\* time and status to active and changes nothing else in the state document
\* but version and updated_at; for an unregistered id it is a silent no-op:
\* it raises nothing, creates no agent record and leaves state document and
\* journal unchanged.
C19_HeartbeatFrame == [][HeartbeatStep(AgentKeys)]_vars

\* the same for every id but the inherited key
C19_ExceptInheritedKey == [][HeartbeatStep(AgentKeys \ {Proto})]_vars

\* the functions that only read
ReadOps == {c.op : c \in ReadCalls}

\* C20: status, statusText, listWorkstreams, loadState, getEvents,
\* readKnowledge and listKnowledge never mutate: each leaves the state
\* document (version included), the journal and the knowledge store as they
\* were; and listWorkstreams or status called twice with no mutation and no
\* clock change in between returns the same both times.
C20_ReadsNeverMutate ==
    [][(last'.call.op \in ReadOps)
       => /\ doc' = doc
          /\ journal' = journal
          /\ knowledge' = knowledge
          /\ (/\ last.call = last'.call
              /\ last.call.op \in {"listWorkstreams", "status"})
             => last'.view = last.view]_vars

\* C20 witness: status has returned a snapshot with a workstream, a running
\* lock, a journal entry and a knowledge topic in it, at the version stored
C20_Witness ==
    /\ last.call.op = "status"
    /\ last.view[1].version = doc.version
    /\ doc.version = MaxReadVersion
    /\ Len(last.view[1].workstreams) > 0
    /\ DOMAIN last.view[1].active_locks # {}
    /\ Len(last.view[1].recent_events) > 0
    /\ last.view[1].knowledge_topics # {}

\* the journal has a knowledge_written entry for the topic
EverWritten(lines, topic) ==
    \E i \in 1..Len(lines) :
        lines[i].action = "knowledge_written" /\ lines[i].topic = topic

\* what writeKnowledge leaves to be read, and what is read of a topic
\* without a file, for the topics in topics
KnowledgeStep(topics) ==
    /\ (IsCall /\ last'.call.op = "writeKnowledge"
               /\ last'.call.topic \in topics)
       => LET c == last'.call
          IN /\ readKnowledge(knowledge', c.topic) =
                    [agent |-> c.agent, ts |-> now, content |-> c.content]
             /\ c.topic \in listKnowledge(knowledge')
             /\ Len(journal') = Len(journal) + 1
             /\ journal'[Len(journal')].action = "knowledge_written"
             /\ journal'[Len(journal')].topic = c.topic
             /\ journal'[Len(journal')].agent = c.agent
    /\ (IsCall /\ last'.call.op = "deleteKnowledge" /\ last'.ret = "true")
       => readKnowledge(knowledge', last'.call.topic) = NoFile
    /\ \A topic \in topics :
          ~EverWritten(journal', topic)
          => readKnowledge(knowledge', topic) = NoFile
    /\ (last'.call.op = "readKnowledge") => last'.ret \notin Errors

\* C21: after writeKnowledge(topic, body, agent), readKnowledge(topic)
\* returns the provenance header followed by exactly body (the latest write
\* wins), the topic appears in listKnowledge, and one knowledge_written
\* event is journaled; readKnowledge of a topic never written, or deleted,
\* returns the absence sentinel without raising.
C21_KnowledgeRoundTrip == [][KnowledgeStep(Topics)]_vars

\* the same for topics whose name has no ".md" in it
C21_WhenTopicHasNoMd == [][KnowledgeStep(PlainTopics)]_vars

\* C22: task identifiers are unique within their owning workstream: in every
\* reachable state no two tasks of the same workstream have the same id,
\* for every sequence of addTask calls and every outcome of identifier
\* generation.
C22_TaskIdsUnique == \A name \in WsNames : UniqueIds(TasksOf(doc, name))

----------------------------------------------------------------------------
(* The HTTP layer (server.js): a request is routed, its body validated,    *)
(* the engine function called, and the outcome mapped to a status code.    *)
(* A body field that the request does not carry is Undefined.              *)

MaxHttpVersion == 2

\* json(res, data, statusCode = 200), error(res, message, statusCode = 400)
Ok == 200
Created == 201
BadRequest == 400
NotFoundStatus == 404
ServerError == 500

Req(route, ws, id, agentId, title, prio, result, topic, content) ==
    [route |-> route, ws |-> ws, id |-> id, agent |-> agentId,
     title |-> title, prio |-> prio, result |-> result, topic |-> topic,
     content |-> content]

BodyAgents == {"a1", Undefined}
Titles == {"title", Undefined}
BodyContents == {"c1", Undefined}

Requests ==
    {Req("POST workstreams", name, None, None, None, prio, None, None, None) :
        name \in WsKeys \cup {Undefined}, prio \in PrioInputs}
    \cup {Req("GET tasks", ws, None, None, None, 0, None, None, None) :
            ws \in WsKeys}
    \cup {Req("POST tasks", ws, None, None, title, prio, None, None, None) :
            ws \in WsKeys, title \in Titles, prio \in PrioInputs}
    \cup {Req("POST claim", ws, id, a, None, 0, None, None, None) :
            ws \in WsKeys, id \in TaskIds, a \in BodyAgents}
    \cup {Req("POST complete", ws, id, None, None, 0, res, None, None) :
            ws \in WsKeys, id \in TaskIds, res \in Results}
    \cup {Req("POST next", ws, None, a, None, 0, None, None, None) :
            ws \in WsKeys, a \in BodyAgents}
    \cup {Req("GET knowledge", None, None, None, None, 0, None, topic, None) :
            topic \in PlainTopics}
    \cup {Req("PUT knowledge", None, None, a, None, 0, None, topic, content) :
            a \in BodyAgents, topic \in PlainTopics,
            content \in BodyContents}

\* the routes answered from what is stored, without an engine call that
\* can raise
Lookups == {"GET tasks", "GET knowledge"}

\* `if (!body.x) return error(res, 'x is required')`
Validated(q) ==
    CASE q.route = "POST workstreams" -> q.ws # Undefined
      [] q.route = "POST tasks" -> q.title # Undefined
      [] q.route = "POST claim" -> q.agent # Undefined
      [] q.route = "POST next" -> q.agent # Undefined
      [] q.route = "PUT knowledge" -> q.content # Undefined
      [] OTHER -> TRUE

\* the engine call a validated request makes; id is what genId returns
EngineCall(q, id) ==
    CASE q.route = "POST workstreams" ->
            Call("createWorkstream", q.ws, None, None, None, 0, q.prio, None)
      [] q.route = "POST tasks" ->
            [Call("addTask", q.ws, id, None, None, 0, q.prio, None)
                EXCEPT !.title = q.title]
      [] q.route = "POST claim" ->
            Call("claimTask", q.ws, q.id, q.agent, None, 0, 0, None)
      [] q.route = "POST complete" ->
            Call("completeTask", q.ws, q.id, None, None, 0, 0, q.result)
      [] q.route = "POST next" ->
            Call("getNextTask", q.ws, None, q.agent, None, 0, 0, None)

\* the status of a route whose engine call returned
Success(route) ==
    IF route \in {"POST workstreams", "POST tasks"} THEN Created ELSE Ok

\* the status of a lookup
Lookup(q, state, files) ==
    IF q.route = "GET tasks"
    THEN IF ~WsTruthy(state, q.ws) THEN NotFoundStatus ELSE Ok
    ELSE IF readKnowledge(files, q.topic) = NoFile
         THEN NotFoundStatus ELSE Ok

\* `body.agent || 'api'`
OrApi(a) == IF a = Undefined THEN "api" ELSE a

Reply(q, c, r, code) ==
    [call |-> c, ret |-> r.ret, idx |-> r.idx, req |-> q, status |-> code]

\* one request served: try { route } catch (err) { error(res, ..., 500) }
Serve(cap) ==
    \E q \in Requests, id \in TaskIds :
        /\ last = NoLast
        /\ UNCHANGED <<now, held, pc, call, loaded, out>>
        /\ IF q.route \in Lookups
           THEN /\ last' = Reply(q, NoCall, Return(doc, None),
                                 Lookup(q, doc, knowledge))
                /\ UNCHANGED <<doc, journal, knowledge>>
           ELSE IF ~Validated(q)
           THEN /\ last' = Reply(q, NoCall, Return(doc, None), BadRequest)
                /\ UNCHANGED <<doc, journal, knowledge>>
           ELSE IF q.route = "PUT knowledge"
           THEN /\ Len(journal) < cap
                /\ knowledge' = writeKnowledge(knowledge, q.topic, q.content,
                                               OrApi(q.agent), now)
                /\ journal' = AppendLine(journal,
                      logEvent(now, OrApi(q.agent), "knowledge_written",
                               [topic |-> q.topic]))
                /\ last' = Reply(q, NoCall, Return(doc, None), Ok)
                /\ UNCHANGED doc
           ELSE LET c == EngineCall(q, id)
                    r == Handle(c, doc, now)
                IN /\ WithinBounds(c, doc, r, cap)
                   /\ doc' = IF r.save THEN SaveState(r.doc, now) ELSE doc
                   /\ journal' = journal \o r.events
                   /\ last' = Reply(q, c, r, IF r.ret \in Errors
                                             THEN ServerError
                                             ELSE Success(q.route))
                   /\ UNCHANGED knowledge

HttpNext ==
    \/ Serve(MaxHttpVersion)
    \/ Resume
    \/ Tick

HttpSpec == Init /\ [][HttpNext]_vars

\* a request has just been answered
IsReply == last = NoLast /\ last' # NoLast

\* the request names a workstream, or a task, or a topic, that is not stored
MissingResource(q, state, files) ==
    \/ /\ q.route \in {"GET tasks", "POST tasks", "POST claim",
                       "POST complete", "POST next"}
       /\ ~WsHas(state, q.ws)
    \/ /\ q.route \in {"POST claim", "POST complete"}
       /\ WsHas(state, q.ws)
       /\ FindTask(Tasks(state, q.ws), q.id) = 0
    \/ /\ q.route = "GET knowledge"
       /\ FileOf(q.topic) \notin DOMAIN files

\* C23: in the HTTP layer a request that references a missing resource
\* yields a not-found (404) status: POST claim, complete, next or add-task
\* against an unknown workstream, and POST claim or complete against an
\* unknown task id, all respond 404, just as GET tasks of an unknown
\* workstream and GET of an unknown knowledge topic do.
C23_MissingResourceIs404 ==
    [][(IsReply /\ Validated(last'.req)
          /\ MissingResource(last'.req, doc, knowledge))
       => last'.status = NotFoundStatus]_vars

\* what the code answers: 404 from the two lookups of a named workstream or
\* topic, 500 from the routes whose engine call raises
C23_LookupsAre404OthersAre500 ==
    [][(IsReply /\ Validated(last'.req) /\ last'.req.ws # Proto
          /\ MissingResource(last'.req, doc, knowledge))
       => last'.status = IF last'.req.route \in Lookups
                         THEN NotFoundStatus ELSE ServerError]_vars

\* an acquireLock of a resource whose stored lock belongs to another agent
AcquireOfOthersLock ==
    /\ IsCall
    /\ last'.call.op = "acquireLock"
    /\ last'.call.resource \in DOMAIN doc.locks
    /\ Lock(doc, last'.call.resource).agent # last'.call.agent

\* acquiredAt + ttlMs of the stored lock the call finds
StoredExpiry ==
    Lock(doc, last'.call.resource).acquired_at
        + Lock(doc, last'.call.resource).ttl_ms

\* C24: a lock on r held by a is treated as expired, and so grantable to a
\* different agent b, exactly when acquiredAt + ttlMs < now (strict); at the
\* instant now = acquiredAt + ttlMs the lock still counts as held and
\* acquireLock(r, b) is denied.
C24_ExpiryBoundaryStrict ==
    [][AcquireOfOthersLock
       => (last'.ret = "true" <=> StoredExpiry < now)]_vars

\* what the code does: the lock is grantable from the instant
\* now = acquiredAt + ttlMs on
C24_GrantedFromExpiryInstant ==
    [][AcquireOfOthersLock
       => (last'.ret = "true" <=> StoredExpiry <= now)]_vars

\* the call of process p has saved
HasSaved(p) == pc[p] \in {"saved", "done"} /\ Len(out[p].events) > 0

\* the save of process p, made after process q has saved from the same
\* loaded document, version N, and while q's save is what is stored: the
\* version stays N+1, and of two addTask calls only p's task is added
OverwritingSave(p, q) ==
    (/\ pc[p] \in {"loaded", "claiming"}
     /\ pc'[p] = "saved"
     /\ HasSaved(q)
     /\ loaded[q] = loaded[p]
     /\ doc.version = loaded[q].version + 1)
    => /\ doc'.version = loaded[p].version + 1
       /\ \A ws \in WsNames :
             (call[p].op = "addTask" /\ call[p].ws = ws
                /\ call[q].op = "addTask" /\ call[q].ws = ws)
             => /\ Len(Tasks(doc', ws)) = Len(Tasks(loaded[p], ws)) + 1
                /\ Tasks(doc', ws)[Len(Tasks(doc', ws))].id = call[p].id
                /\ SubSeq(Tasks(doc', ws), 1, Len(Tasks(loaded[p], ws)))
                     = Tasks(loaded[p], ws)

\* every save is journaled, overwritten or not
SaveJournaled(p) ==
    (pc[p] = "saved" /\ pc'[p] = "done")
    => /\ Len(out[p].events) = 1
       /\ journal' = journal \o out[p].events

\* C25: lost update is reachable across processes: there is an interleaving
\* of two mutating calls from different processes in which both load the
\* document at version N, both save successfully, the second save overwrites
\* the first call's change (it is absent from the final document), and the
\* final version is N+1 although two saves and two journal entries
\* occurred.  Stated of every second save from the same loaded document;
\* C25_Witness is one such interleaving, of two addTask calls.
C25_LostUpdate ==
    [][/\ OverwritingSave("p1", "p2")
       /\ OverwritingSave("p2", "p1")
       /\ SaveJournaled("p1")
       /\ SaveJournaled("p2")]_vars

\* C25 witness: p1 added task t1 and p2 task t2 from the same loaded
\* document, both saved and journaled, and only p2's task is in the stored
\* document, whose version is one above the loaded one
C25_Witness ==
    /\ HasSaved("p1")
    /\ HasSaved("p2")
    /\ loaded["p1"] = loaded["p2"]
    /\ \A p \in Procs : call[p].op = "addTask" /\ call[p].ws = "w1"
    /\ call["p1"].id = "t1"
    /\ call["p2"].id = "t2"
    /\ pc["p1"] = "done"
    /\ pc["p2"] = "done"
    /\ doc.version = loaded["p1"].version + 1
    /\ FindTask(Tasks(doc, "w1"), "t1") = 0
    /\ FindTask(Tasks(doc, "w1"), "t2") # 0
    /\ journal[Len(journal) - 1] = out["p1"].events[1]
    /\ journal[Len(journal)] = out["p2"].events[1]

\* every pending task of tasks has a stored priority above prio
BelowAllPending(tasks, prio) ==
    \A i \in 1..Len(tasks) :
        tasks[i].status = "pending" => prio < tasks[i].priority

\* what addTask and createWorkstream store of a supplied priority in prios,
\* and what getNextTask would select after the addTask
PriorityStep(prios) ==
    /\ (IsCall /\ last'.call.op = "addTask" /\ last'.ret = "task"
          /\ last'.call.prio \in prios)
       => LET c == last'.call
              tasks == Tasks(doc', c.ws)
          IN /\ tasks[last'.idx].priority = c.prio
             /\ BelowAllPending(Tasks(doc, c.ws), c.prio)
                => SelectNext(tasks) = last'.idx
    /\ (IsCall /\ last'.call.op = "createWorkstream"
          /\ last'.ret = "workstream" /\ last'.call.prio \in prios)
       => doc'.workstreams[WsIdx(doc', last'.call.ws)].priority
             = last'.call.prio

\* C26: addTask stores the caller-supplied integer priority unchanged for
\* every integer value (0 included), createWorkstream does the same for the
\* workstream priority, and therefore a task added with a lower supplied
\* priority than every other pending task is the one getNextTask returns.
C26_SuppliedPriorityStored == [][PriorityStep(PrioInputs)]_vars

\* the same for the supplied priorities other than 0
C26_WhenPriorityIsNotZero == [][PriorityStep(PrioInputs \ {0})]_vars

\* between old and new, the tasks of one workstream before and after a step,
\* no task goes back: none is removed, none leaves done, none goes from
\* in_progress to pending, and an assignee once set stays
ForwardOnly(old, new) ==
    /\ Len(new) >= Len(old)
    /\ \A i \in 1..Len(old) :
          /\ old[i].status = "in_progress" => new[i].status # "pending"
          /\ old[i].status = "done" => new[i].status = "done"
          /\ old[i].assigned_to # Null
             => new[i].assigned_to = old[i].assigned_to

\* C27: task lifecycle is forward-only: over any sequence of operations a
\* task's status never moves from in_progress back to pending nor from done
\* to any other status, and once assigned_to has been set by a successful
\* claim no later operation (completeTask and further claim attempts
\* included) changes it.
C27_LifecycleForwardOnly ==
    [][\A ws \in WsNames : ForwardOnly(TasksOf(doc, ws), TasksOf(doc', ws))]_vars

\* C27 witness: a claim by another agent has just been refused on a task
\* that is done and still assigned to its claimant
C27_Witness ==
    /\ last.call.op = "claimTask"
    /\ last.ret = "InvalidState"
    /\ \E i \in 1..Len(TasksOf(doc, last.call.ws)) :
        /\ i = FindTask(TasksOf(doc, last.call.ws), last.call.id)
        /\ TasksOf(doc, last.call.ws)[i].status = "done"
        /\ TasksOf(doc, last.call.ws)[i].result = "R"
        /\ TasksOf(doc, last.call.ws)[i].assigned_to \in
              Agents \ {last.call.agent}

\* the fields a task of workstream ws carries in each status
StatusFields(ws, task) ==
    /\ task.status = "pending"
       => task.assigned_to = Null /\ task.result = Null
    /\ task.status = "in_progress"
       => task.assigned_to # Null /\ task.result = Null
    /\ task.result # Null => task.status = "done"
    /\ task.status = "done"
       => (task.assigned_to = Null <=> ClaimsOf(ws, task.id) = {})

\* C28: in every state reachable by calls executed one at a time, each
\* pending task has assigned_to = null and result = null, each in_progress
\* task a non-null assigned_to and result = null; only done tasks may carry
\* a result, and a done task has assigned_to = null exactly when it was
\* completed without ever being claimed.
C28_FieldsFollowStatus ==
    \A ws \in WsNames :
        \A i \in 1..Len(TasksOf(doc, ws)) :
            StatusFields(ws, TasksOf(doc, ws)[i])

\* C28 witness: a task that was claimed has just been completed: it is done,
\* carries its result and is still assigned to its claimant
C28_Witness ==
    /\ last.call.op = "completeTask"
    /\ last.ret = "task"
    /\ LET task == TasksOf(doc, last.call.ws)[last.idx]
       IN /\ task.status = "done"
          /\ task.result = "R"
          /\ task.assigned_to \in Agents
          /\ ClaimsOf(last.call.ws, task.id) # {}

\* what a getNextTask step returns: the no-task sentinel, or the task it
\* selected, pending before the call, in progress for the caller after it
SentinelOrSelected ==
    LET c == last'.call
        old == TasksOf(doc, c.ws)
        new == TasksOf(doc', c.ws)
    IN /\ last'.ret \notin Errors
       /\ \/ last'.ret = "null"
          \/ /\ last'.ret = "task"
             /\ last'.idx = SelectNext(old)
             /\ old[last'.idx].status = "pending"
             /\ new[last'.idx].status = "in_progress"
             /\ new[last'.idx].assigned_to = c.agent

\* C29: for calls executed one at a time, getNextTask on an existing
\* workstream never raises: it returns either the no-task sentinel or a task
\* that was pending at the start of the call and is the very task it
\* selected, now in_progress and assigned to the caller; it never fails with
\* InvalidState and never claims a task other than the selected one.
C29_GetNextNeverRaises ==
    [][(IsCall /\ last'.call.op = "getNextTask" /\ WsHas(doc, last'.call.ws))
       => SentinelOrSelected]_vars

\* C29 while the ids of the workstream's tasks are pairwise different
C29_WhileIdsAreUnique ==
    [][(IsCall /\ last'.call.op = "getNextTask" /\ WsHas(doc, last'.call.ws)
          /\ UniqueIds(TasksOf(doc, last'.call.ws)))
       => SentinelOrSelected]_vars

----------------------------------------------------------------------------
(* The board with several workstreams, one of them under an index key,     *)
(* and listWorkstreams called between the mutations.                       *)

MaxListVersion == 4

ListNames == WsNames \cup {"w2"} \cup IndexKeys

CreateListed(cap) ==
    \E name \in ListNames, prio \in PrioInputs :
        Do(Call("createWorkstream", name, None, None, None, 0, prio, None), cap)

ListWorkstreams ==
    /\ last = NoLast
    /\ last' = [call |-> ReadCall("listWorkstreams", None, NoQuery),
                ret |-> "view", idx |-> 0, view |-> listWorkstreams(doc)]
    /\ UNCHANGED <<knowledge, doc, journal, now, held, pc, call, loaded, out>>

ListNext ==
    \/ CreateListed(MaxListVersion)
    \/ AddTask(MaxListVersion)
    \/ ClaimTask(MaxListVersion)
    \/ CompleteTask(MaxListVersion)
    \/ ListWorkstreams
    \/ Resume

ListSpec == Init /\ [][ListNext]_vars

\* list has one entry per stored workstream
OneEntryEach(list, wss) ==
    /\ Len(list) = Len(wss)
    /\ \A i \in 1..Len(wss) :
          Cardinality({k \in 1..Len(list) : list[k].name = wss[i].name}) = 1

\* list is ascending by priority, equal priorities in the stored (insertion)
\* order of wss
AscendingTiesAsInserted(list, state) ==
    \A k, l \in 1..Len(list) :
        k < l => \/ list[k].priority < list[l].priority
                 \/ /\ list[k].priority = list[l].priority
                    /\ WsIdx(state, list[k].name) < WsIdx(state, list[l].name)

\* the counts of every entry are those of the workstream's tasks
CountsAddUp(list, state) ==
    \A k \in 1..Len(list) :
        LET tasks == Tasks(state, list[k].name)
            With(st) == {i \in 1..Len(tasks) : tasks[i].status = st}
        IN /\ list[k].task_count
                = list[k].pending + list[k].in_progress + list[k].done
           /\ list[k].task_count = Len(tasks)
           /\ list[k].pending = Cardinality(With("pending"))
           /\ list[k].in_progress = Cardinality(With("in_progress"))
           /\ list[k].done = Cardinality(With("done"))

Listed == last # NoLast /\ last.call.op = "listWorkstreams"

\* C30: listWorkstreams returns one entry per workstream, sorted ascending by
\* priority with ties kept in map insertion order, and for every entry
\* task_count = pending + in_progress + done, where each count equals the
\* number of the workstream's tasks with that status.
C30_ListSortedAndCounted ==
    Listed => /\ OneEntryEach(last.view, doc.workstreams)
              /\ AscendingTiesAsInserted(last.view, doc)
              /\ CountsAddUp(last.view, doc)

\* the same while no workstream is stored under an index key
C30_WhenNoIndexKey ==
    (Listed /\ \A i \in 1..Len(doc.workstreams) :
                   doc.workstreams[i].name \notin IndexKeys)
    => /\ OneEntryEach(last.view, doc.workstreams)
       /\ AscendingTiesAsInserted(last.view, doc)
       /\ CountsAddUp(last.view, doc)

\* under an index key too: one entry each, ascending priorities, the counts
C30_ExceptTieOrder ==
    Listed => /\ OneEntryEach(last.view, doc.workstreams)
              /\ \A k, l \in 1..Len(last.view) :
                    k < l => last.view[k].priority <= last.view[l].priority
              /\ CountsAddUp(last.view, doc)

----------------------------------------------------------------------------
(* The lock manager with status called between the lock operations.        *)

Status ==
    /\ last = NoLast
    /\ last' = [call |-> ReadCall("status", None, NoQuery),
                ret |-> "view", idx |-> 0,
                view |-> status(doc, doc, journal, knowledge, now)]
    /\ UNCHANGED <<knowledge, doc, journal, now, held, pc, call, loaded, out>>

LockViewNext ==
    \/ AcquireLock(MaxLockVersion)
    \/ ReleaseLock(MaxLockVersion)
    \/ Status
    \/ Resume
    \/ Tick

LockViewSpec == Init /\ [][LockViewNext]_vars

\* the snapshot just returned lists the stored locks that have not run out
\* at the clock reading of the call, each with its stored entry
ListsUnexpired ==
    (IsCall /\ last'.call.op = "status")
    => /\ DOMAIN last'.view.active_locks =
             {r \in DOMAIN doc.locks :
                 now < doc.locks[r].acquired_at + doc.locks[r].ttl_ms}
       /\ \A r \in DOMAIN last'.view.active_locks :
             last'.view.active_locks[r] = doc.locks[r]
       /\ doc'.locks = doc.locks

\* a stored lock entry goes only by a successful releaseLock of its holder,
\* and changes only by a granted acquireLock on its resource
StoredUntilReleasedOrOverwritten ==
    \A r \in DOMAIN doc.locks :
        /\ r \notin DOMAIN doc'.locks
           => /\ IsCall
              /\ last'.call.op = "releaseLock"
              /\ last'.ret = "true"
              /\ last'.call.resource = r
              /\ last'.call.agent = doc.locks[r].agent
        /\ (r \in DOMAIN doc'.locks /\ doc'.locks[r] # doc.locks[r])
           => /\ IsCall
              /\ last'.call.op = "acquireLock"
              /\ last'.ret = "true"
              /\ last'.call.resource = r

\* C31: the status snapshot lists as active locks exactly the lock entries
\* that are unexpired at call time, while expired entries remain stored in
\* the state document: no operation other than a successful releaseLock
\* removes a lock key, and an expired entry stays until it is released by
\* its holder or overwritten by the next granted acquireLock on that
\* resource.
C31_ActiveLocksAreTheUnexpired ==
    [][ListsUnexpired /\ StoredUntilReleasedOrOverwritten]_vars

\* C31 witness: status has just returned no active lock while the document
\* stores a lock that has run out
C31_Witness ==
    /\ last # NoLast
    /\ last.call.op = "status"
    /\ DOMAIN last.view.active_locks = {}
    /\ \E r \in DOMAIN doc.locks :
          /\ doc.locks[r].ttl_ms > 0
          /\ now >= doc.locks[r].acquired_at + doc.locks[r].ttl_ms

----------------------------------------------------------------------------
(* The board with two workstreams, next to an agent and a lock, at one      *)
(* clock reading.                                                          *)

MaxFrameVersion == 5

FrameNames == WsNames \cup {"w2"}
FramePrios == {1}
FrameAgents == {"a1"}

CreateIn(cap) ==
    \E name \in FrameNames, prio \in FramePrios :
        Do(Call("createWorkstream", name, None, None, None, 0, prio, None), cap)

AddTaskIn(cap) ==
    \E ws \in FrameNames, prio \in FramePrios, id \in TaskIds :
        Do(Call("addTask", ws, id, None, None, 0, prio, None), cap)

ClaimTaskIn(cap) ==
    \E ws \in FrameNames, id \in TaskIds, a \in FrameAgents :
        Do(Call("claimTask", ws, id, a, None, 0, 0, None), cap)

CompleteTaskIn(cap) ==
    \E ws \in FrameNames, id \in TaskIds, res \in Results :
        Do(Call("completeTask", ws, id, None, None, 0, 0, res), cap)

GetNextTaskIn(cap) ==
    \E ws \in FrameNames, a \in FrameAgents :
        Do(Call("getNextTask", ws, None, a, None, 0, 0, None), cap)

RegisterIn(cap) ==
    \E a \in FrameAgents :
        Do(Call("registerAgent", None, None, a, None, 0, 0, None), cap)

FrameNext ==
    \/ CreateIn(MaxFrameVersion)
    \/ AddTaskIn(MaxFrameVersion)
    \/ ClaimTaskIn(MaxFrameVersion)
    \/ CompleteTaskIn(MaxFrameVersion)
    \/ GetNextTaskIn(MaxFrameVersion)
    \/ RegisterIn(MaxFrameVersion)
    \/ AcquireOwnKey(MaxFrameVersion)
    \/ Resume

FrameSpec == Init /\ [][FrameNext]_vars

\* no workstream is removed or moved, and in each the earlier tasks keep
\* their position, id, title and priority
OnlyGrows(old, new) ==
    /\ Len(new.workstreams) >= Len(old.workstreams)
    /\ \A w \in 1..Len(old.workstreams) :
          /\ new.workstreams[w].name = old.workstreams[w].name
          /\ Len(new.workstreams[w].tasks) >= Len(old.workstreams[w].tasks)
          /\ \A i \in 1..Len(old.workstreams[w].tasks) :
                /\ new.workstreams[w].tasks[i].id
                      = old.workstreams[w].tasks[i].id
                /\ new.workstreams[w].tasks[i].title
                      = old.workstreams[w].tasks[i].title
                /\ new.workstreams[w].tasks[i].priority
                      = old.workstreams[w].tasks[i].priority

\* new differs from old in task i of workstream w at most
OnlyTaskChanged(old, new, w, i) ==
    /\ new.agents = old.agents
    /\ new.locks = old.locks
    /\ Len(new.workstreams) = Len(old.workstreams)
    /\ \A v \in 1..Len(old.workstreams) :
          v # w => new.workstreams[v] = old.workstreams[v]
    /\ [new.workstreams[w] EXCEPT !.tasks = <<>>]
          = [old.workstreams[w] EXCEPT !.tasks = <<>>]
    /\ Len(new.workstreams[w].tasks) = Len(old.workstreams[w].tasks)
    /\ \A j \in 1..Len(old.workstreams[w].tasks) :
          j # i => new.workstreams[w].tasks[j] = old.workstreams[w].tasks[j]

\* a claimTask, getNextTask or completeTask that returned a task changed
\* that task only; one that raised changed nothing
TaskStepFrame ==
    (IsCall /\ last'.call.op \in {"claimTask", "getNextTask", "completeTask"})
    => IF last'.ret = "task"
       THEN OnlyTaskChanged(doc, doc', WsIdx(doc, last'.call.ws), last'.idx)
       ELSE doc' = doc

\* C32: workstreams and tasks are never removed or reordered: over any
\* sequence of operations the set of workstream names only grows, each
\* workstream's task sequence only grows by appending at the end (every
\* earlier task keeps its position, id, title and priority), and claimTask /
\* completeTask for one task leave every other task and every other
\* workstream, agent and lock unchanged.
C32_NeverRemovedOrReordered ==
    [][OnlyGrows(doc, doc') /\ TaskStepFrame]_vars

\* C32 witness: a task has just been completed in a workstream that holds
\* another task, while a second workstream is stored
C32_Witness ==
    /\ last.call.op = "completeTask"
    /\ last.ret = "task"
    /\ Len(doc.workstreams) = 2
    /\ Len(TasksOf(doc, last.call.ws)) = 2
    /\ TasksOf(doc, last.call.ws)[last.idx].status = "done"
    /\ \E j \in 1..2 :
          j # last.idx /\ TasksOf(doc, last.call.ws)[j].status = "pending"

\* what a deleteKnowledge call does, for the topics in topics
DeleteStep(topics) ==
    (IsCall /\ last'.call.op = "deleteKnowledge" /\ last'.call.topic \in topics)
    => LET c == last'.call
       IN IF FileOf(c.topic) \in DOMAIN knowledge
          THEN /\ last'.ret = "true"
               /\ readKnowledge(knowledge', c.topic) = NoFile
               /\ c.topic \notin listKnowledge(knowledge')
               /\ \A f \in DOMAIN knowledge :
                     f # FileOf(c.topic)
                     => f \in DOMAIN knowledge' /\ knowledge'[f] = knowledge[f]
               /\ Len(journal') = Len(journal) + 1
               /\ SubSeq(journal', 1, Len(journal)) = journal
               /\ journal'[Len(journal')].action = "knowledge_deleted"
               /\ journal'[Len(journal')].topic = c.topic
               /\ journal'[Len(journal')].agent = c.agent
          ELSE /\ last'.ret = "false"
               /\ knowledge' = knowledge
               /\ journal' = journal

\* C33: deleteKnowledge(topic) on an existing topic removes it (a subsequent
\* readKnowledge returns the absence sentinel and listKnowledge no longer
\* contains it), returns success and journals one knowledge_deleted event;
\* on an absent topic it returns failure without raising and journals
\* nothing.
C33_DeleteKnowledge == [][DeleteStep(Topics)]_vars

\* the same for topics whose name has no ".md" in it
C33_WhenTopicHasNoMd == [][DeleteStep(PlainTopics)]_vars

----------------------------------------------------------------------------
(* The three stores side by side: the state document, the journal and the  *)
(* knowledge files, each written by its own functions.                     *)

MaxStoreVersion == 2
MaxStoreEvents == 2

StoresNext ==
    \/ CreateIn(MaxStoreVersion)
    \/ AddTaskIn(MaxStoreVersion)
    \/ RegisterIn(MaxStoreVersion)
    \/ AcquireOwnKey(MaxStoreVersion)
    \/ WriteKnowledge(PlainTopics, MaxStoreEvents)
    \/ DeleteKnowledge(MaxStoreEvents)
    \/ LogEvent(MaxStoreEvents)
    \/ Resume
    \/ Tick

StoresSpec == Init /\ [][StoresNext]_vars

KnowledgeOps == {"writeKnowledge", "deleteKnowledge"}
DocumentOps ==
    {"createWorkstream", "addTask", "claimTask", "completeTask",
     "getNextTask", "registerAgent", "heartbeat", "acquireLock",
     "releaseLock"}

\* C34: knowledge operations and logEvent never touch the state document:
\* writeKnowledge, deleteKnowledge and logEvent leave version, updated_at,
\* workstreams, agents and locks unchanged, and conversely no workstream,
\* task, agent or lock operation changes the knowledge store.
C34_StoresAreSeparate ==
    [][/\ (IsCall /\ last'.call.op \in KnowledgeOps \cup {"logEvent"})
          => /\ doc'.version = doc.version
             /\ doc'.updated_at = doc.updated_at
             /\ doc'.workstreams = doc.workstreams
             /\ doc'.agents = doc.agents
             /\ doc'.locks = doc.locks
       /\ (IsCall /\ last'.call.op \in DocumentOps)
          => knowledge' = knowledge]_vars

\* C34 witness: a knowledge file has just been rewritten at a later clock
\* reading than the last save of a document that holds a workstream
C34_Witness ==
    /\ last.call.op = "writeKnowledge"
    /\ Len(doc.workstreams) = 1
    /\ doc.version >= 1
    /\ doc.updated_at < now
    /\ knowledge[FileOf(last.call.topic)].ts = now
    /\ knowledge[FileOf(last.call.topic)].content = "c2"

----------------------------------------------------------------------------
(* status in one process while another process mutates: status loads the   *)
(* document, then its listWorkstreams() call loads it again, then the      *)
(* journal is read and the snapshot put together.                          *)

MaxSnapshotSaves == 3

\* the calls the writer issues
SnapshotCalls ==
    {Call("createWorkstream", ws, None, None, None, 0, 1, None) : ws \in WsNames}
    \cup {Call("addTask", ws, "t1", None, None, 0, 1, None) : ws \in WsNames}
    \cup {Call("registerAgent", None, None, "a1", None, 0, 0, None),
          Call("acquireLock", None, None, "a1", "r1", 1, 0, None)}

\* status, line 301: const state = loadState()
StatusLoad ==
    /\ pc["p1"] = "idle"
    /\ call' = [call EXCEPT !["p1"] =
                    Call("status", None, None, None, None, 0, 0, None)]
    /\ loaded' = [loaded EXCEPT !["p1"] = doc]
    /\ pc' = [pc EXCEPT !["p1"] = "snap"]
    /\ UNCHANGED <<knowledge, doc, journal, now, last, held, out>>

\* status, line 302: listWorkstreams() loads the document again
StatusList ==
    /\ pc["p1"] = "snap"
    /\ out' = [out EXCEPT !["p1"] =
                  [ret |-> None, idx |-> 0, events |-> <<>>, listed |-> doc]]
    /\ pc' = [pc EXCEPT !["p1"] = "listed"]
    /\ UNCHANGED <<knowledge, doc, journal, now, last, held, call, loaded>>

\* status, lines 303-326: the journal is read, agents and locks are taken
\* from the document of line 301, and the snapshot is returned
StatusCompose ==
    /\ pc["p1"] = "listed"
    /\ out' = [out EXCEPT !["p1"] =
                  [ret |-> "view", idx |-> 0, events |-> <<>>,
                   listed |-> out["p1"].listed,
                   view |-> status(loaded["p1"], out["p1"].listed,
                                   journal, knowledge, now)]]
    /\ pc' = [pc EXCEPT !["p1"] = "done"]
    /\ UNCHANGED <<knowledge, doc, journal, now, last, held, call, loaded>>

SnapshotNext ==
    \/ StatusLoad
    \/ StatusList
    \/ StatusCompose
    \/ Begin("p2", SnapshotCalls)
    \/ Save("p2", MaxSnapshotSaves)
    \/ Log("p2")
    \/ \E p \in Procs : Finish(p)
    \/ Tick

SnapshotSpec == Init /\ [][SnapshotNext]_vars

\* status has returned its snapshot to process p1
Snapshotted == pc["p1"] = "done" /\ call["p1"].op = "status"

\* the version, updated_at, agents and active locks of the snapshot view are
\* those of the document d
HeadFrom(view, d) ==
    /\ view.version = d.version
    /\ view.updated_at = d.updated_at
    /\ DOMAIN view.agents = DOMAIN d.agents
    /\ \A id \in DOMAIN d.agents :
          view.agents[id].last_seen = d.agents[id].last_seen
    /\ DOMAIN view.active_locks \subseteq DOMAIN d.locks
    /\ \A r \in DOMAIN view.active_locks : view.active_locks[r] = d.locks[r]

\* the workstreams of the snapshot view are those of the document d
WorkstreamsFrom(view, d) ==
    /\ Len(view.workstreams) = Len(d.workstreams)
    /\ \A k \in 1..Len(view.workstreams) :
          /\ WsHas(d, view.workstreams[k].name)
          /\ view.workstreams[k].tasks = Tasks(d, view.workstreams[k].name)

\* C35: the status snapshot is not atomic across its sub-reads: when a
\* mutation from another process is saved between status's own load of the
\* state document and its listWorkstreams sub-read, status can return a
\* version/agents/locks view from before the mutation together with
\* workstream data from after it; when no mutation interleaves, the
\* version, workstreams, agents and locks of the snapshot all reflect one
\* and the same persisted document.  Stated of every snapshot: its head is
\* that of the document status loaded, its workstreams those of the document
\* listWorkstreams loaded; C35_Witness is a snapshot that mixes two.
C35_SnapshotOfTwoLoads ==
    Snapshotted
    => /\ HeadFrom(out["p1"].view, loaded["p1"])
       /\ WorkstreamsFrom(out["p1"].view, out["p1"].listed)
       /\ out["p1"].listed = loaded["p1"]
          => /\ HeadFrom(out["p1"].view, loaded["p1"])
             /\ WorkstreamsFrom(out["p1"].view, loaded["p1"])

\* C35 witness: a snapshot with the version and the agents of the empty
\* document, before the writer's save, and the workstream the writer saved
C35_Witness ==
    /\ Snapshotted
    /\ out["p1"].view.version = 0
    /\ DOMAIN out["p1"].view.agents = {}
    /\ loaded["p1"].workstreams = <<>>
    /\ Len(out["p1"].view.workstreams) = 1
    /\ out["p1"].view.workstreams[1].name = "w1"
    /\ out["p1"].listed.version = 1

====
